---------------------------- MODULE Spec2Model ----------------------------
(***************************************************************************)
(* A model of the generative engine of Endless Banger:                     *)
(*                                                                         *)
(*   Clock              (src/src/boilerplate.js, function Clock)           *)
(*   genericParameter   (src/src/interface.js)                             *)
(*   ThreeOhGen, NineOhGen (src/src/pattern.js, src/src/math.js)           *)
(*   WanderingParameter (src/unnamed/part_000:19-69)                       *)
(*   ClockUnit, ThreeOhUnit, NineOhUnit, AutoPilot, start                  *)
(*                      (src/unnamed/part_000:80-426)                      *)
(*                                                                         *)
(* The Clock is the closure of boilerplate.js:89-156 together with the     *)
(* browser's table of pending timeouts (window.setTimeout / clearTimeout). *)
(* JavaScript runs one handler at a time: a top-level call of the Clock's  *)
(* API is one step, and a timer callback is the steps                      *)
(*   stepCall  (the timer fires, step() tests isRunning and calls fn),     *)
(*   callbackRuns (one step per API call the callback body makes),         *)
(*   stepSchedule (the rest of step(): shuffle, n++, scheduleNext),        *)
(* between which nothing else can run (pc = "cb").                         *)
(*                                                                         *)
(* Time is in milliseconds.  The tempi, subdivisions and shuffle amounts   *)
(* are drawn from values for which the code's floating point arithmetic    *)
(* is exact, so that integer arithmetic computes what the code computes.   *)
(* The shuffle amount is held in percent (50 stands for 0.5).              *)
(***************************************************************************)
EXTENDS Integers, Sequences, FiniteSets, TLC

VARIABLES
    \* ---- Clock closure (boilerplate.js:89-95) ----
    currentBpm,     \* let currentBpm = bpm
    n,              \* let n = 0
    fn,             \* let fn = () => {}      (a callback name, see Callbacks)
    timeoutId,      \* let timeoutId = null   (NullId or a timer id)
    isRunning,      \* let isRunning = true
    subdivision,    \* constructor parameter
    shuffle,        \* constructor parameter, in percent
    \* ---- platform ----
    timers,         \* window's pending timeouts: set of [id, due]
    now,            \* wall clock, ms since the Clock was constructed
    \* ---- control ----
    pc,             \* "idle": no handler runs; "cb": inside fn, called by step()
    script,         \* what is left of the running callback's body
    \* ---- history (written, never read, by the actions) ----
    lastOp,         \* the last thing that happened, with what it found
    ticks,          \* how many times a callback has been invoked
    lastCall,       \* the last invocation: [fn, n, t]
    halted,         \* the latest of stop()/start() was stop()
    lastBound,      \* the callback most recently given to bind()
    since,          \* the last stop/start/setBpm called outside a tick since
                    \* the last tick ("none" when there was none)
    bpmAtStop,      \* currentBpm when stop() was last called
    \* ---- genericParameter (interface.js:7-28) ----
    param,          \* the closure: value (state.value), listeners, and its
                    \* history: delivered, writes, lastWritten, sinceSub, mark
    cbPool,         \* the callbacks the environment may subscribe
    \* ---- exploration ----
    horizon,        \* the time up to which timers are followed
    \* ---- the application (src/unnamed/part_000) ----
    sys,            \* the parameters and units that start() creates
    \* ---- the generators (src/src/pattern.js) ----
    gen,            \* ThreeOhGen / NineOhGen: note set, trigger, last result
    \* ---- WanderingParameter (src/unnamed/part_000:19-69) ----
    wander,         \* the wanderer's closure and the parameter it wraps
    \* ---- an instrument unit (src/unnamed/part_000:80-201) ----
    inst            \* a ThreeOhUnit's or the NineOhUnit's closure

clockVars == <<currentBpm, n, fn, timeoutId, isRunning, subdivision, shuffle,
               timers, now, pc, script,
               lastOp, ticks, lastCall, halted, lastBound, since, bpmAtStop,
               horizon>>
paramVars == <<param, cbPool>>
vars == <<clockVars, paramVars, sys, gen, wander, inst>>

\* What the steps of one component leave alone.
notClock == <<paramVars, sys, gen, wander, inst>>
notParam == <<clockVars, sys, gen, wander, inst>>

---------------------------------------------------------------------------
(* Bounds of the exploration *)

\* Time horizon in ms: no timer fires and no time passes beyond it.
MaxTime == 300
\* How far the environment lets time pass in one step between its calls.
ElapseSteps == {50}

\* Tempi given to the constructor and to setBpm.
Bpms == {75, 150}
\* Steps per beat given to the constructor (4 is the default).
Subdivisions == {2, 4}
\* Shuffle amounts given to the constructor, in percent (0 is the default).
Shuffles == {0, 50}

NullId == 0

---------------------------------------------------------------------------
(* Callbacks a client may bind.  "noop" is the Clock's initial () => {}    *)
(* (boilerplate.js:92); "rec" only observes its arguments, as ClockUnit's  *)
(* callback does; the others call back into the Clock's API from inside    *)
(* the tick.                                                               *)

Callbacks == {"noop", "rec", "stopper", "retempo", "restart", "rebinder"}

Call(op, bpm, f) == [op |-> op, bpm |-> bpm, fn |-> f]

CallbackBody(f) ==
    CASE f = "stopper"  -> << Call("stop", 0, "noop") >>
      [] f = "retempo"  -> << Call("setBpm", 75, "noop") >>
      [] f = "restart"  -> << Call("stop", 0, "noop"), Call("start", 0, "noop") >>
      [] f = "rebinder" -> << Call("bind", 0, "rec") >>
      [] f = "unit"     -> << Call("currentStep", 0, "unit") >>
      [] OTHER          -> << >>

---------------------------------------------------------------------------
(* window.setTimeout / window.clearTimeout *)

\* clearTimeout(id): the timer with that id, if still pending, is removed.
ClearTimeout(tbl, id) == {t \in tbl : t.id # id}

\* setTimeout returns an id no pending timer has; the model also keeps it
\* different from the handle the Clock still holds.
FreshId(tbl, held) ==
    CHOOSE i \in 1..(Cardinality(tbl) + 2) :
        /\ i # held
        /\ \A t \in tbl : t.id # i
        /\ \A j \in 1..(i - 1) : j = held \/ \E t \in tbl : t.id = j

SetTimeout(tbl, id, delay) == tbl \cup {[id |-> id, due |-> now + delay]}

---------------------------------------------------------------------------
(* Clock (boilerplate.js:89-156) *)

\* (60000 / bpm) / subdivision, boilerplate.js:139 and :152
BaseInterval(bpm) == (60000 \div bpm) \div subdivision

\* A variant of ShuffleFactor that lengthens the odd steps instead.
ShuffleFactorOddLong(k) == IF k % 2 = 1 THEN 100 + shuffle ELSE 100 - shuffle

\* n % 2 === 0 ? 1 + shuffle : 1 - shuffle, boilerplate.js:125 (in percent)
ShuffleFactor(k) == IF k % 2 = 0 THEN 100 + shuffle ELSE 100 - shuffle

\* shuffleFactor * (60000 / currentBpm) / subdivision, boilerplate.js:129
ShuffledInterval(factor, bpm) == (factor * (60000 \div bpm)) \div (100 * subdivision)

\* A variant of scheduleNext that does not cancel the pending timer.
scheduleNextNoCancel(running, interval) ==
    IF running
    THEN /\ timers' = SetTimeout(timers, FreshId(timers, timeoutId), interval)
         /\ timeoutId' = FreshId(timers, timeoutId)
    ELSE UNCHANGED <<timers, timeoutId>>

\* scheduleNext(interval), boilerplate.js:105-112.  `running` is isRunning as
\* it is when scheduleNext reads it.
scheduleNext(running, interval) ==
    LET tbl == IF timeoutId # NullId THEN ClearTimeout(timers, timeoutId) ELSE timers
        id  == FreshId(tbl, timeoutId)
    IN  IF running
        THEN /\ timers' = SetTimeout(tbl, id, interval)
             /\ timeoutId' = id
        ELSE /\ timers' = tbl
             /\ timeoutId' = timeoutId

\* A variant of bind that also restarts the pending interval.
bindReschedules(newFn) ==
    /\ fn' = newFn
    /\ LET tbl == ClearTimeout(timers, timeoutId)
       IN  IF isRunning /\ timers # {}
           THEN /\ timers' = SetTimeout(tbl, FreshId(tbl, timeoutId), (60000 \div currentBpm) \div subdivision)
                /\ timeoutId' = FreshId(tbl, timeoutId)
           ELSE UNCHANGED <<timers, timeoutId>>
    /\ UNCHANGED <<currentBpm, n, isRunning>>

\* bind(newFn), boilerplate.js:101-103
bind(newFn) ==
    /\ fn' = newFn
    /\ UNCHANGED <<currentBpm, n, timeoutId, isRunning, timers>>

\* A variant of setBpm that leaves the pending tick where it is.
setBpmKeepsPending(bpm) ==
    /\ currentBpm' = bpm
    /\ UNCHANGED <<timers, timeoutId, n, fn, isRunning>>

\* A variant of setBpm that schedules a tick whether or not the clock runs.
setBpmSchedulesAlways(bpm) ==
    /\ currentBpm' = bpm
    /\ scheduleNext(TRUE, BaseInterval(bpm))
    /\ UNCHANGED <<n, fn, isRunning>>

\* setBpm, boilerplate.js:135-141
setBpm(bpm) ==
    /\ currentBpm' = bpm
    /\ IF isRunning
       THEN scheduleNext(isRunning, BaseInterval(bpm))
       ELSE UNCHANGED <<timers, timeoutId>>
    /\ UNCHANGED <<n, fn, isRunning>>

\* A variant of stop that cancels the timer and leaves isRunning set.
stopKeepsFlag ==
    /\ IF timeoutId # NullId
       THEN /\ timers' = ClearTimeout(timers, timeoutId)
            /\ timeoutId' = NullId
       ELSE UNCHANGED <<timers, timeoutId>>
    /\ UNCHANGED <<currentBpm, n, fn, isRunning>>

\* A variant of stop that also rewinds the step index.
stopRewinds ==
    /\ isRunning' = FALSE
    /\ n' = 0
    /\ IF timeoutId # NullId
       THEN /\ timers' = ClearTimeout(timers, timeoutId)
            /\ timeoutId' = NullId
       ELSE UNCHANGED <<timers, timeoutId>>
    /\ UNCHANGED <<currentBpm, fn>>

\* stop, boilerplate.js:142-148
stop ==
    /\ isRunning' = FALSE
    /\ IF timeoutId # NullId
       THEN /\ timers' = ClearTimeout(timers, timeoutId)
            /\ timeoutId' = NullId
       ELSE UNCHANGED <<timers, timeoutId>>
    /\ UNCHANGED <<currentBpm, n, fn>>

\* A variant of start that resumes with the shuffled interval of step n.
startShuffled ==
    /\ IF ~isRunning
       THEN /\ isRunning' = TRUE
            /\ scheduleNext(TRUE, ShuffledInterval(ShuffleFactor(n), currentBpm))
       ELSE UNCHANGED <<isRunning, timers, timeoutId>>
    /\ UNCHANGED <<currentBpm, n, fn>>

\* start, boilerplate.js:149-154
start ==
    /\ IF ~isRunning
       THEN /\ isRunning' = TRUE
            /\ scheduleNext(TRUE, BaseInterval(currentBpm))
       ELSE UNCHANGED <<isRunning, timers, timeoutId>>
    /\ UNCHANGED <<currentBpm, n, fn>>

\* One call of the Clock's API, and what the history records of it.
Pending == IF timers = {} THEN -1 ELSE (CHOOSE t \in timers : \A u \in timers : t.due <= u.due).due

Invoke(c) ==
    /\ CASE c.op = "stop"   -> stop
         [] c.op = "start"  -> start
         [] c.op = "setBpm" -> setBpm(c.bpm)
         [] c.op = "bind"   -> bind(c.fn)
    /\ lastOp' = [name |-> c.op, wasRunning |-> isRunning, stale |-> Pending, inCb |-> pc = "cb"]
    /\ halted' = IF c.op = "stop" THEN TRUE ELSE IF c.op = "start" THEN FALSE ELSE halted
    /\ lastBound' = IF c.op = "bind" THEN c.fn ELSE lastBound
    /\ since' = IF pc = "idle" /\ c.op # "bind" THEN c.op ELSE since
    /\ bpmAtStop' = IF c.op = "stop" THEN currentBpm ELSE bpmAtStop
    /\ UNCHANGED <<subdivision, shuffle, now, ticks, lastCall, horizon>>

---------------------------------------------------------------------------
(* The Clock's steps *)

InitClock ==
    /\ currentBpm \in Bpms
    /\ subdivision \in Subdivisions
    /\ shuffle \in Shuffles
    /\ n = 0
    /\ fn = "noop"
    /\ timeoutId = NullId
    /\ isRunning = TRUE
    /\ timers = {}
    /\ now = 0
    /\ pc = "idle"
    /\ script = << >>
    /\ lastOp = [name |-> "new", wasRunning |-> FALSE, stale |-> -1, inCb |-> FALSE]
    /\ ticks = 0
    /\ lastCall = [fn |-> "noop", n |-> -1, t |-> -1]
    /\ halted = FALSE
    /\ lastBound = "noop"
    /\ since = "none"
    /\ bpmAtStop = currentBpm

\* The environment calls the API between handlers.
CallStop ==
    /\ pc = "idle"
    /\ Invoke(Call("stop", 0, "noop"))
    /\ UNCHANGED <<pc, script>>
    /\ UNCHANGED notClock

CallStart ==
    /\ pc = "idle"
    /\ Invoke(Call("start", 0, "noop"))
    /\ UNCHANGED <<pc, script>>
    /\ UNCHANGED notClock

CallSetBpm ==
    /\ pc = "idle"
    /\ \E b \in Bpms : Invoke(Call("setBpm", b, "noop"))
    /\ UNCHANGED <<pc, script>>
    /\ UNCHANGED notClock

CallBind ==
    /\ pc = "idle"
    /\ \E f \in Callbacks : Invoke(Call("bind", 0, f))
    /\ UNCHANGED <<pc, script>>
    /\ UNCHANGED notClock

\* Time passes with no handler running, not beyond a pending timer.
Elapse ==
    /\ pc = "idle"
    /\ \E d \in ElapseSteps :
        /\ now + d <= horizon
        /\ \A t \in timers : now + d <= t.due
        /\ now' = now + d
    /\ lastOp' = [name |-> "elapse", wasRunning |-> isRunning, stale |-> Pending, inCb |-> FALSE]
    /\ UNCHANGED <<currentBpm, n, fn, timeoutId, isRunning, subdivision, shuffle,
                   timers, pc, script, ticks, lastCall, halted, lastBound,
                   since, bpmAtStop, horizon>>
    /\ UNCHANGED notClock

\* step(), boilerplate.js:118-122: the earliest pending timer comes due and
\* fires; step returns at once when not running, else calls fn(t, n).
stepCall ==
    /\ pc = "idle"
    /\ \E t \in timers :
        /\ \A u \in timers : t.due <= u.due
        /\ t.due <= horizon
        /\ timers' = timers \ {t}
        /\ now' = t.due
        /\ IF ~isRunning
           THEN /\ lastOp' = [name |-> "skip", wasRunning |-> isRunning, stale |-> -1, inCb |-> FALSE]
                /\ UNCHANGED <<pc, script, ticks, lastCall>>
           ELSE /\ pc' = "cb"
                /\ script' = CallbackBody(fn)
                /\ ticks' = ticks + 1
                /\ lastCall' = [fn |-> fn, n |-> n, t |-> t.due]
                /\ lastOp' = [name |-> "call", wasRunning |-> isRunning, stale |-> -1, inCb |-> TRUE]
    /\ UNCHANGED <<currentBpm, n, fn, timeoutId, isRunning, subdivision, shuffle,
                   halted, lastBound, since, bpmAtStop, horizon>>
    /\ UNCHANGED notClock

\* The body of the callback calls the Clock's API.
callbackRuns ==
    /\ pc = "cb"
    /\ script # << >>
    /\ Invoke(Head(script))
    /\ script' = Tail(script)
    /\ UNCHANGED pc
    /\ UNCHANGED notClock

\* A variant of stepSchedule that increments n before choosing the factor.
stepSchedulePostIncrement ==
    /\ pc = "cb"
    /\ script = << >>
    /\ n' = n + 1
    /\ scheduleNext(isRunning, ShuffledInterval(ShuffleFactor(n + 1), currentBpm))
    /\ pc' = "idle"
    /\ since' = "none"
    /\ lastOp' = [name |-> "sched", wasRunning |-> isRunning, stale |-> Pending, inCb |-> TRUE]
    /\ UNCHANGED <<currentBpm, fn, isRunning, subdivision, shuffle, now, script,
                   ticks, lastCall, halted, lastBound, bpmAtStop, horizon>>
    /\ UNCHANGED notClock

\* step(), boilerplate.js:124-130, after fn has returned.
stepSchedule ==
    /\ pc = "cb"
    /\ script = << >>
    /\ LET shuffleFactor == ShuffleFactor(n)
       IN  /\ n' = n + 1
           /\ scheduleNext(isRunning, ShuffledInterval(shuffleFactor, currentBpm))
    /\ pc' = "idle"
    /\ since' = "none"
    /\ lastOp' = [name |-> "sched", wasRunning |-> isRunning, stale |-> Pending, inCb |-> TRUE]
    /\ UNCHANGED <<currentBpm, fn, isRunning, subdivision, shuffle, now, script,
                   ticks, lastCall, halted, lastBound, bpmAtStop, horizon>>
    /\ UNCHANGED notClock

NextClock ==
    \/ CallStop
    \/ CallStart
    \/ CallSetBpm
    \/ CallBind
    \/ Elapse
    \/ stepCall
    \/ callbackRuns
    \/ stepSchedule

---------------------------------------------------------------------------
(* genericParameter (interface.js:7-28)                                    *)
(*                                                                         *)
(* param.value is state.value and param.listeners the listeners array.     *)
(* The other fields are history: delivered lists every callback            *)
(* invocation as [cb, value, via], via = 0 for the call subscribe makes    *)
(* itself (interface.js:12) and via = i for the call publish makes for     *)
(* listeners[i] (interface.js:18); writes counts the executions of the     *)
(* setter.  The environment's steps record lastWritten, the value it last  *)
(* assigned, sinceSub, the number of its assignments since the last        *)
(* subscribe returned, and mark, the length of delivered at that return.   *)
(*                                                                         *)
(* Subscribers "a" and "b" only observe.  "once" writes back into the      *)
(* parameter it observes: on receiving 0 it sets the value to 1.           *)

Values == {0, 1, 2}
Observers == {"a", "b"}
Subscribers == Observers \cup {"once"}

\* How many subscriptions and how many executions of the setter are explored.
MaxListeners == 3
MaxWrites == 3

RECURSIVE publish(_, _)
RECURSIVE setValue(_, _)

\* A callback is invoked with state.value; its body runs to completion.
invoke(p, cb, via) ==
    LET q == [p EXCEPT !.delivered = Append(@, [cb |-> cb, value |-> p.value, via |-> via])]
    IN  IF cb = "once" /\ p.value = 0 THEN setValue(q, 1) ELSE q

\* publish(), interface.js:16-20: for (let l of listeners) l(state.value),
\* from listeners[i] on; the array and the value are read as they are then.
publish(p, i) ==
    IF i > Len(p.listeners)
    THEN p
    ELSE publish(invoke(p, p.listeners[i], i), i + 1)

\* A variant of the setter that publishes only a changed value.
setValueIfChanged(p, v) ==
    IF v = p.value
    THEN [p EXCEPT !.writes = @ + 1]
    ELSE publish([p EXCEPT !.value = v, !.writes = @ + 1], 1)

\* set value(v), interface.js:26
setValue(p, v) ==
    publish([p EXCEPT !.value = v, !.writes = @ + 1], 1)

\* A variant of subscribe that registers the callback before calling it.
subscribeRegistersFirst(p, callback) ==
    invoke([p EXCEPT !.listeners = Append(@, callback)], callback, 0)

\* subscribe(callback), interface.js:11-14
subscribe(p, callback) ==
    LET q == invoke(p, callback, 0)
    IN  [q EXCEPT !.listeners = Append(@, callback)]

\* get value(), interface.js:25
getValue(p) == p.value

NewParameter(v) ==
    [value |-> v, listeners |-> << >>, delivered |-> << >>,
     writes |-> 0, lastWritten |-> v, sinceSub |-> 0, mark |-> 0]

InitParam ==
    /\ \E v \in Values : param = NewParameter(v)

Subscribe ==
    /\ Len(param.listeners) < MaxListeners
    /\ param.writes < MaxWrites
    /\ \E cb \in cbPool :
        LET q == subscribe(param, cb)
        IN  param' = [q EXCEPT !.sinceSub = 0, !.mark = Len(q.delivered)]
    /\ UNCHANGED cbPool
    /\ UNCHANGED notParam

Write ==
    /\ param.writes < MaxWrites
    /\ \E v \in Values :
        param' = [setValue(param, v) EXCEPT !.lastWritten = v, !.sinceSub = @ + 1]
    /\ UNCHANGED cbPool
    /\ UNCHANGED notParam

NextParam ==
    \/ Subscribe
    \/ Write

---------------------------------------------------------------------------
(* The pattern generators (src/src/pattern.js, src/src/math.js)            *)
(*                                                                         *)
(* Math.random() is a tape of numbers in hundredths (25 stands for 0.25),  *)
(* read cyclically: gen.tape is drawn when the generator is created and    *)
(* gen.k is the position of the next draw.  Every comparison and product   *)
(* the code makes of a draw is made of the tape's value, in the order the  *)
(* code draws.  Velocities are in ten-thousandths (9000 stands for 0.9).   *)
(* A note's text is the pair of its name and octave.                       *)
(*                                                                         *)
(* gen.noteSet and gen.newNotes are the values of the two parameters of    *)
(* ThreeOhGen, gen.pattern the array createPattern returned last and       *)
(* gen.drums the four arrays createPatterns returned last.  History:       *)
(* gen.op is the last operation, gen.hadNew the trigger's value when       *)
(* createPattern was last entered, gen.before the note set then,           *)
(* gen.regenerated whether that call ran changeNotes, gen.full the         *)
(* argument of the last createPatterns, gen.modes the styles it chose and  *)
(* gen.picks their indices in the arrays they were chosen from.            *)

\* The values Math.random() takes, and how many of them make a tape.
RndValues == {0, 25, 45, 55, 95}
TapeLen == 3
Tapes == [1..TapeLen -> RndValues]

\* The k-th value Math.random() returns.
Random(g) == g.tape[g.k + 1]
Drawn(g, m) == [g EXCEPT !.k = (@ + m) % Len(g.tape)]

\* rndInt(maxExcl), math.js:6-8, of the draw r:
\* Math.floor(Math.random() * (maxExcl - 0.01))
rndInt(maxExcl, r) == (r * (100 * maxExcl - 1)) \div 10000

\* choose(array), math.js:23-25 (arrays are 1-based here)
choose(array, r) == array[rndInt(Len(array), r) + 1]

\* revLook, audio.js:8-27
revLook ==
    [i \in 0..11 |->
        <<"C", "C#", "D", "D#", "E", "F", "F#", "G", "G#", "A", "A#", "B">>[i + 1]]

\* midiNoteToText(note), audio.js:52-57
midiNoteToText(note) == <<revLook[note % 12], note \div 12>>

\* offsetChoices, pattern.js:9-18
offsetChoices ==
    << <<0, 0, 12, 24, 27>>,
       <<0, 0, 0, 12, 10, 19, 26, 27>>,
       <<0, 1, 7, 10, 12, 13>>,
       <<0>>,
       <<0, 0, 0, 12>>,
       <<0, 0, 12, 14, 15, 19>>,
       <<0, 0, 0, 0, 12, 13, 16, 19, 22, 24, 25>>,
       <<0, 0, 0, 7, 12, 15, 17, 20, 24>> >>

\* The number of steps of a pattern, pattern.js:53 and 100-103
PatternSteps == 16

\* A variant of changeNotes whose roots start at 17.
changeNotesHighRoot(g) ==
    LET root == rndInt(15, Random(g)) + 17
        offsets == choose(offsetChoices, Random(Drawn(g, 1)))
        h == Drawn(g, 2)
    IN  [h EXCEPT !.noteSet = [j \in 1..Len(offsets) |-> midiNoteToText(offsets[j] + root)],
                  !.regenerated = TRUE]

\* changeNotes(), pattern.js:35-39
changeNotes(g) ==
    LET root == rndInt(15, Random(g)) + 16
        offsets == choose(offsetChoices, Random(Drawn(g, 1)))
        h == Drawn(g, 2)
    IN  [h EXCEPT !.noteSet = [j \in 1..Len(offsets) |-> midiNoteToText(offsets[j] + root)],
                  !.regenerated = TRUE]

\* A variant of the rest slot that carries an accent.
restAccented == [note |-> "-", accent |-> TRUE, glide |-> FALSE]

\* The slot pushed for a rest, pattern.js:69-73
rest == [note |-> "-", accent |-> FALSE, glide |-> FALSE]

\* The note probability of step i in percent, pattern.js:55-60 (density = 1.0)
chance(i) ==
    IF i % 4 = 0 THEN 60
    ELSE IF i % 3 = 0 THEN 50
    ELSE IF i % 2 = 0 THEN 30
    ELSE 10

RECURSIVE patternLoop(_, _)

\* for (let i = 0; i < 16; i++), pattern.js:53-75
patternLoop(g, i) ==
    IF i >= PatternSteps
    THEN g
    ELSE IF Random(g) < chance(i)
         THEN LET g1 == Drawn(g, 1)
                  g2 == Drawn(g, 2)
                  g3 == Drawn(g, 3)
                  slot == [note |-> choose(g.noteSet, Random(g1)),
                           accent |-> Random(g2) < 30,
                           glide |-> Random(g3) < 10]
              IN  patternLoop([Drawn(g, 4) EXCEPT !.pattern = Append(@, slot)], i + 1)
         ELSE patternLoop([Drawn(g, 1) EXCEPT !.pattern = Append(@, rest)], i + 1)

\* A variant of createPattern that regenerates the note set on every call.
createPatternAlwaysNew(g) ==
    patternLoop([changeNotes(g) EXCEPT !.newNotes = FALSE, !.pattern = << >>], 0)

\* createPattern(), pattern.js:45-78
createPattern(g) ==
    LET h == IF g.newNotes = TRUE
             THEN [changeNotes(g) EXCEPT !.newNotes = FALSE]
             ELSE g
    IN  patternLoop([h EXCEPT !.pattern = << >>], 0)

\* An array element that was never assigned, pattern.js:100-103 (new Array(16))
Undefined == -1
EmptyArray == [i \in 1..PatternSteps |-> Undefined]

\* array[i] = v for the 0-based index i
Assign(array, i, v) == [array EXCEPT ![i + 1] = v]

\* The styles to choose from, pattern.js:106-108
kickModes == <<"electro", "fourfloor">>

\* A variant of hatModes in which "none" can be chosen whatever full is.
hatModesNone(full) == <<"offbeats", "closed", "none">>

hatModes(full) == <<"offbeats", "closed", IF full THEN "offbeats" ELSE "none">>
snareModes(full) == <<"backbeat", "skip", IF full THEN "backbeat" ELSE "none">>

RECURSIVE fourfloorLoop(_, _)
RECURSIVE electroLoop(_, _)
RECURSIVE skipLoop(_, _)
RECURSIVE backbeatLoop(_, _)
RECURSIVE offbeatsLoop(_, _)
RECURSIVE closedLoop(_, _)

\* pattern.js:113-119; g.drums = <<kick, oh, ch, sd>>
fourfloorLoop(g, i) ==
    IF i >= PatternSteps
    THEN g
    ELSE IF i % 4 = 0
         THEN fourfloorLoop([g EXCEPT !.drums[1] = Assign(@, i, 9000)], i + 1)
         ELSE IF i % 2 = 0
              THEN IF Random(g) < 10
                   THEN fourfloorLoop([Drawn(g, 1) EXCEPT !.drums[1] = Assign(@, i, 6000)], i + 1)
                   ELSE fourfloorLoop(Drawn(g, 1), i + 1)
              ELSE fourfloorLoop(g, i + 1)

\* pattern.js:122-130
electroLoop(g, i) ==
    IF i >= PatternSteps
    THEN g
    ELSE IF i = 0
         THEN electroLoop([g EXCEPT !.drums[1] = Assign(@, i, 10000)], i + 1)
         ELSE IF i % 2 = 0 /\ i % 8 # 4
              THEN IF Random(g) < 50
                   THEN electroLoop([Drawn(g, 2) EXCEPT
                                        !.drums[1] = Assign(@, i, Random(Drawn(g, 1)) * 90)], i + 1)
                   ELSE IF Random(Drawn(g, 1)) < 5
                        THEN electroLoop([Drawn(g, 3) EXCEPT
                                        !.drums[1] = Assign(@, i, Random(Drawn(g, 2)) * 90)], i + 1)
                        ELSE electroLoop(Drawn(g, 2), i + 1)
              ELSE IF Random(g) < 5
                   THEN electroLoop([Drawn(g, 2) EXCEPT
                                        !.drums[1] = Assign(@, i, Random(Drawn(g, 1)) * 90)], i + 1)
                   ELSE electroLoop(Drawn(g, 1), i + 1)

\* pattern.js:136-140
backbeatLoop(g, i) ==
    IF i >= PatternSteps
    THEN g
    ELSE IF i % 8 = 4
         THEN backbeatLoop([g EXCEPT !.drums[4] = Assign(@, i, 10000)], i + 1)
         ELSE backbeatLoop(g, i + 1)

\* A variant of skipMain that scales the draw by 0.5.
skipMainLoud(r) == 6000 + r * 50

\* The velocity of a main skip beat, pattern.js:145: 0.6 + Math.random() * 0.4
skipMain(r) == 6000 + r * 40

\* pattern.js:143-151
skipLoop(g, i) ==
    IF i >= PatternSteps
    THEN g
    ELSE IF i % 8 = 3 \/ i % 8 = 6
         THEN skipLoop([Drawn(g, 1) EXCEPT
                            !.drums[4] = Assign(@, i, skipMain(Random(g)))], i + 1)
         ELSE IF i % 2 = 0
              THEN IF Random(g) < 20
                   THEN skipLoop([Drawn(g, 2) EXCEPT
                            !.drums[4] = Assign(@, i, 4000 + Random(Drawn(g, 1)) * 20)], i + 1)
                   ELSE IF Random(Drawn(g, 1)) < 10
                        THEN skipLoop([Drawn(g, 3) EXCEPT
                            !.drums[4] = Assign(@, i, 2000 + Random(Drawn(g, 2)) * 20)], i + 1)
                        ELSE skipLoop(Drawn(g, 2), i + 1)
              ELSE IF Random(g) < 10
                   THEN skipLoop([Drawn(g, 2) EXCEPT
                            !.drums[4] = Assign(@, i, 2000 + Random(Drawn(g, 1)) * 20)], i + 1)
                   ELSE skipLoop(Drawn(g, 1), i + 1)

\* pattern.js:157-167
offbeatsLoop(g, i) ==
    IF i >= PatternSteps
    THEN g
    ELSE IF i % 4 = 2
         THEN offbeatsLoop([g EXCEPT !.drums[2] = Assign(@, i, 4000)], i + 1)
         ELSE IF Random(g) < 30
              THEN IF Random(Drawn(g, 1)) < 50
                   THEN offbeatsLoop([Drawn(g, 3) EXCEPT
                            !.drums[3] = Assign(@, i, Random(Drawn(g, 2)) * 20)], i + 1)
                   ELSE offbeatsLoop([Drawn(g, 3) EXCEPT
                            !.drums[2] = Assign(@, i, Random(Drawn(g, 2)) * 20)], i + 1)
              ELSE offbeatsLoop(Drawn(g, 1), i + 1)

\* pattern.js:170-176
closedLoop(g, i) ==
    IF i >= PatternSteps
    THEN g
    ELSE IF i % 2 = 0
         THEN closedLoop([g EXCEPT !.drums[3] = Assign(@, i, 4000)], i + 1)
         ELSE IF Random(g) < 50
              THEN closedLoop([Drawn(g, 2) EXCEPT
                            !.drums[3] = Assign(@, i, Random(Drawn(g, 1)) * 30)], i + 1)
              ELSE closedLoop(Drawn(g, 1), i + 1)

\* createPatterns(full), pattern.js:98-180
createPatterns(g, full) ==
    LET kickMode == choose(kickModes, Random(g))
        hatMode == choose(hatModes(full), Random(Drawn(g, 1)))
        snareMode == choose(snareModes(full), Random(Drawn(g, 2)))
        g0 == [Drawn(g, 3) EXCEPT
                  !.drums = <<EmptyArray, EmptyArray, EmptyArray, EmptyArray>>,
                  !.full = full,
                  !.modes = <<kickMode, hatMode, snareMode>>,
                  !.picks = <<rndInt(2, Random(g)), rndInt(3, Random(Drawn(g, 1))),
                              rndInt(3, Random(Drawn(g, 2)))>>]
        g1 == IF kickMode = "fourfloor" THEN fourfloorLoop(g0, 0)
              ELSE IF kickMode = "electro" THEN electroLoop(g0, 0)
              ELSE g0
        g2 == IF snareMode = "backbeat" THEN backbeatLoop(g1, 0)
              ELSE IF snareMode = "skip" THEN skipLoop(g1, 0)
              ELSE g1
        g3 == IF hatMode = "offbeats" THEN offbeatsLoop(g2, 0)
              ELSE IF hatMode = "closed" THEN closedLoop(g2, 0)
              ELSE g2
    IN  g3

NewGen(tape) ==
    [tape |-> tape, k |-> 0,
     noteSet |-> << <<"C", 1>> >>, newNotes |-> TRUE,
     pattern |-> << >>, drums |-> << >>,
     op |-> "new", hadNew |-> FALSE, before |-> << >>, regenerated |-> FALSE,
     full |-> FALSE, modes |-> << >>, picks |-> << >>]

InitGen == \E tape \in Tapes : gen = NewGen(tape)

notGen == <<clockVars, paramVars, sys, wander, inst>>

\* A unit calls gen.createPattern().
CreatePattern ==
    /\ gen' = [createPattern([gen EXCEPT !.hadNew = gen.newNotes,
                                         !.before = gen.noteSet,
                                         !.regenerated = FALSE])
                 EXCEPT !.op = "createPattern"]
    /\ UNCHANGED notGen

\* Something sets the trigger: gen.newNotes.value = true
\* (boilerplate.js:55, part_000:266).
RaiseNewNotes ==
    /\ gen' = [gen EXCEPT !.newNotes = TRUE, !.op = "newNotes"]
    /\ UNCHANGED notGen

\* A unit calls createPatterns, with or without the argument true.
CreatePatterns ==
    /\ \E full \in BOOLEAN :
        gen' = [createPatterns(gen, full) EXCEPT !.op = "createPatterns"]
    /\ UNCHANGED notGen

NextGen ==
    \/ CreatePattern
    \/ RaiseNewNotes
    \/ CreatePatterns

---------------------------------------------------------------------------
(* WanderingParameter (src/unnamed/part_000:19-69)                         *)
(*                                                                         *)
(* wander holds the closure (diff, scale, touchCountdown, previousValue),  *)
(* the wrapped parameter (min, max, value) and the tape of Math.random()   *)
(* values in hundredths.  The unit is 1/800000 of the parameter's range,   *)
(* so that scale = (1/400) * (max - min) is 2000 units and the products of *)
(* a draw and scale are whole.  The numbers the decays 0.8 and 0.98 act    *)
(* on, value, diff and previousValue, are pairs <<u, f>> that stand for    *)
(* u + f / Fine units, with f in 0..Fine - 1; a decay is rounded to the    *)
(* nearest 1/Fine of a unit, which after MaxMoves moves is less than a     *)
(* hundred thousandth of a unit on the value.                              *)
(* History: op is the last operation; of the                               *)
(* last step(), wrote tells whether it assigned param.value, detected      *)
(* whether it took the branch of an external change, preCountdown and      *)
(* preDiff what touchCountdown and diff were when it was called; moves     *)
(* counts the steps that assigned the value since the last detection.      *)

\* The values Math.random() takes here, and how many make a tape.
WanderRnd == {0, 50, 95}
WanderTapeLen == 2
WanderTapes == [1..WanderTapeLen -> WanderRnd]

\* How many moving steps are followed after a detection.
MaxMoves == 110

\* The wrapped parameters: envMod, [0, 8000] at 4000 (part_000:122), and
\* dryWet, [0, 0.5] at 0.5 (part_000:210), in units of 1/800000 of the range.
WanderedParams ==
    { [name |-> "envMod", min |-> 0, max |-> 800000, value |-> 400000],
      [name |-> "dryWet", min |-> 0, max |-> 800000, value |-> 800000] }

\* The values an external writer assigns.
ExternalValues == {100000, 400000, 700000}

\* The constants of step(), part_000:41 and 47.
FullCooldown == 200
ActiveBelow == 100

\* How many parts of a unit a number keeps.
Fine == 1000 * 1000 * 1000

\* The number of u units.
Whole(u) == <<u, 0>>

\* The pair of u units and f parts, f above -Fine and below 2 * Fine.
Norm(u, f) == <<u + f \div Fine, f % Fine>>

\* a + b, a - b and a < b
Plus(a, b) == Norm(a[1] + b[1], a[2] + b[2])
Minus(a, b) == Norm(a[1] - b[1], a[2] - b[2])
Less(a, b) == a[1] < b[1] \/ (a[1] = b[1] /\ a[2] < b[2])

\* a / d rounded down to a part, for d a divisor of Fine
Fraction(a, d) == <<a[1] \div d, (a[1] % d) * (Fine \div d) + a[2] \div d>>

\* diff *= 0.8 (d = 5) and diff *= 0.98 (d = 50), part_000:49, to the
\* nearest part
Decay(a, d) == Minus(a, Fraction(Plus(a, <<0, d \div 2>>), d))

\* A variant of WanderingParameter that starts from the parameter's value.
WanderingParameterFromValue(q, tape) ==
    [tape |-> tape, k |-> 0,
     name |-> q.name, min |-> q.min, max |-> q.max, value |-> Whole(q.value),
     diff |-> Whole(0),
     scale |-> (q.max - q.min) \div 400,
     touchCountdown |-> 0,
     previousValue |-> Whole(q.value),
     op |-> "new", wrote |-> FALSE, detected |-> FALSE,
     preCountdown |-> 0, preDiff |-> Whole(0), preValue |-> Whole(q.value),
     moves |-> 0, sinceEdit |-> -1, first |-> FALSE]

\* WanderingParameter(param, scaleFactor = 1/400), part_000:19-31
WanderingParameter(q, tape) ==
    [tape |-> tape, k |-> 0,
     name |-> q.name, min |-> q.min, max |-> q.max, value |-> Whole(q.value),
     diff |-> Whole(0),
     scale |-> (q.max - q.min) \div 400,
     touchCountdown |-> 0,
     previousValue |-> Whole((q.min + q.max) \div 2),
     op |-> "new", wrote |-> FALSE, detected |-> FALSE,
     preCountdown |-> 0, preDiff |-> Whole(0), preValue |-> Whole(q.value),
     moves |-> 0, sinceEdit |-> -1, first |-> FALSE]

\* A variant of move that adds the impulse before the value is written.
moveImpulseFirst(w) ==
    LET decayed == IF w.touchCountdown > 0 THEN Decay(w.diff, 5) ELSE Decay(w.diff, 50)
        diff1 == Plus(decayed, Whole(((Random(w) - 50) * w.scale) \div 100))
        value1 == Plus(w.value, diff1)
        range == w.max - w.min
        high == Less(Whole(w.min + (8 * range) \div 10), value1)
        low == Less(value1, Whole(w.min + (2 * range) \div 10))
        impulse == Whole((Random(Drawn(w, 1)) * w.scale) \div 100)
        diff2 == IF high THEN Minus(diff1, impulse)
                 ELSE IF low THEN Plus(diff1, impulse)
                 ELSE diff1
    IN  [Drawn(w, IF high \/ low THEN 2 ELSE 1) EXCEPT
            !.diff = diff2, !.value = Plus(w.value, diff2),
            !.previousValue = Plus(w.value, diff2),
            !.wrote = TRUE, !.moves = @ + 1]

\* The branch of step() taken when nothing was changed from outside and
\* the countdown is below 100, part_000:47-61
move(w) ==
    LET decayed == IF w.touchCountdown > 0 THEN Decay(w.diff, 5) ELSE Decay(w.diff, 50)
        diff1 == Plus(decayed, Whole(((Random(w) - 50) * w.scale) \div 100))
        value1 == Plus(w.value, diff1)
        range == w.max - w.min
        high == Less(Whole(w.min + (8 * range) \div 10), value1)
        low == Less(value1, Whole(w.min + (2 * range) \div 10))
        impulse == Whole((Random(Drawn(w, 1)) * w.scale) \div 100)
        diff2 == IF high THEN Minus(diff1, impulse)
                 ELSE IF low THEN Plus(diff1, impulse)
                 ELSE diff1
    IN  [Drawn(w, IF high \/ low THEN 2 ELSE 1) EXCEPT
            !.diff = diff2, !.value = value1, !.previousValue = value1,
            !.wrote = TRUE, !.moves = @ + 1]

\* A variant of step that leaves a running countdown alone on a change.
stepKeepsCountdown(w) ==
    IF w.previousValue # w.value
    THEN [w EXCEPT !.diff = Whole(0), !.previousValue = w.value,
                   !.touchCountdown = IF @ > 0 THEN @ ELSE FullCooldown,
                   !.detected = TRUE, !.moves = 0, !.sinceEdit = 0]
    ELSE LET c == [w EXCEPT !.touchCountdown = IF @ > 0 THEN @ - 1 ELSE @,
                            !.sinceEdit = IF @ >= 0 THEN @ + 1 ELSE @]
         IN  IF c.touchCountdown < ActiveBelow THEN move(c) ELSE c

\* A variant of step that is active from a countdown of 100 on.
stepActiveAtHundred(w) ==
    IF w.previousValue # w.value
    THEN [w EXCEPT !.diff = Whole(0), !.previousValue = w.value,
                   !.touchCountdown = FullCooldown,
                   !.detected = TRUE, !.moves = 0, !.sinceEdit = 0]
    ELSE LET c == [w EXCEPT !.touchCountdown = IF @ > 0 THEN @ - 1 ELSE @,
                            !.sinceEdit = IF @ >= 0 THEN @ + 1 ELSE @]
         IN  IF c.touchCountdown <= ActiveBelow THEN move(c) ELSE c

\* step(), part_000:36-64
step(w) ==
    IF w.previousValue # w.value
    THEN [w EXCEPT !.diff = Whole(0), !.previousValue = w.value,
                   !.touchCountdown = FullCooldown,
                   !.detected = TRUE, !.moves = 0, !.sinceEdit = 0]
    ELSE LET c == [w EXCEPT !.touchCountdown = IF @ > 0 THEN @ - 1 ELSE @,
                            !.sinceEdit = IF @ >= 0 THEN @ + 1 ELSE @]
         IN  IF c.touchCountdown < ActiveBelow THEN move(c) ELSE c

InitWander ==
    \E q \in WanderedParams : \E tape \in WanderTapes :
        wander = WanderingParameter(q, tape)

notWander == <<clockVars, paramVars, sys, gen, inst>>

\* The interval timer calls w.step() (part_000:312-316).
WanderStep ==
    /\ wander.moves < MaxMoves
    /\ wander' = [step([wander EXCEPT !.wrote = FALSE, !.detected = FALSE,
                                      !.preCountdown = wander.touchCountdown,
                                      !.preDiff = wander.diff,
                                      !.preValue = wander.value,
                                      !.first = (wander.op = "new")])
                    EXCEPT !.op = "step"]
    /\ UNCHANGED notWander

\* Something else assigns the wrapped parameter's value.
ExternalWrite ==
    /\ \E v \in ExternalValues :
        wander' = [wander EXCEPT !.value = Whole(v), !.op = "write"]
    /\ UNCHANGED notWander

NextWander ==
    \/ WanderStep
    \/ ExternalWrite

\* The components a specification leaves aside.
SysAside == [phase |-> "none"]
GenAside == NewGen(<<0>>)
WanderAside == [op |-> "none"]
InstAside == [op |-> "none"]

---------------------------------------------------------------------------
(* An instrument unit (src/unnamed/part_000:80-201)                        *)
(*                                                                         *)
(* inst is the closure of one unit, a ThreeOhUnit or the NineOhUnit: its   *)
(* generator, its pattern parameter, its newPattern trigger and, for the   *)
(* drums, the four mutes.  What the unit tells the synth or the sampler in *)
(* a step is kept as history.                                              *)

\* The indices step() is called with; the application passes 0..15.
MaxIndex == 16
StepIndices == 0..MaxIndex

Kinds == {"ThreeOh", "NineOh"}

\* ThreeOhUnit(...), part_000:80-93, and NineOhUnit(...), part_000:146-170
NewUnit(kind, tape) ==
    [kind |-> kind,
     g |-> NewGen(tape),
     pattern |-> << >>,                             \* part_000:85, 156
     newPattern |-> TRUE,                           \* part_000:88, 167
     mutes |-> <<FALSE, FALSE, FALSE, FALSE>>,      \* part_000:159-164
     op |-> "new", index |-> -1, wasNew |-> TRUE, wasEmpty |-> TRUE,
     before |-> << >>, replaced |-> FALSE, sound |-> "none", played |-> {}]

\* A variant of renews that does not look at the index.
renewsAnywhere(u, index) ==
    u.newPattern = TRUE \/ Len(u.pattern) = 0

\* The test of step(), part_000:102 and 178
renews(u, index) ==
    (index = 0 /\ u.newPattern = TRUE) \/ Len(u.pattern) = 0

\* pattern.value = gen.createPattern(); newPattern.value = false,
\* part_000:103-104
threeOhRenew(u) ==
    LET g1 == createPattern(u.g)
    IN  [u EXCEPT !.g = g1, !.pattern = g1.pattern, !.newPattern = FALSE,
                  !.replaced = TRUE]

\* ThreeOhUnit.step(index), part_000:99-116, patternLength = 16
threeOhUnitStep(u, index) ==
    LET u1 == IF renews(u, index) THEN threeOhRenew(u) ELSE u
        slot == u1.pattern[(index % PatternSteps) + 1]
    IN  [u1 EXCEPT !.sound = IF slot.note # "-"
                             THEN [on |-> TRUE, note |-> slot.note,
                                   accent |-> slot.accent, glide |-> slot.glide]
                             ELSE [on |-> FALSE]]

\* pattern.value = gen.createPatterns(true); newPattern.value = false,
\* part_000:179-180
nineOhRenew(u) ==
    LET g1 == createPatterns(u.g, TRUE)
    IN  [u EXCEPT !.g = g1, !.pattern = g1.drums, !.newPattern = FALSE,
                  !.replaced = TRUE]

\* A variant of plays that passes an entry of 0 to the sampler.
playsZero(entry, muted) == entry # Undefined /\ ~muted

\* entry && !mutes[i].value, part_000:188
plays(entry, muted) == entry # Undefined /\ entry # 0 /\ ~muted

\* The entry of voice i (1-based) at the step, part_000:186
entryAt(pattern, i, index) == pattern[i][(index % Len(pattern[i])) + 1]

\* NineOhUnit.step(index), part_000:176-192
nineOhUnitStep(u, index) ==
    LET u1 == IF renews(u, index) THEN nineOhRenew(u) ELSE u
    IN  [u1 EXCEPT !.played =
            { [voice |-> i, velocity |-> entryAt(u1.pattern, i, index)] :
                i \in { j \in 1..Len(u1.pattern) :
                            plays(entryAt(u1.pattern, j, index), u1.mutes[j]) } }]

\* The draws of the generator of an instrument.
UnitRnd == {0, 45, 95}
UnitTapeLen == 3
UnitTapes == [1..UnitTapeLen -> UnitRnd]

InitInst == \E kind \in Kinds : \E tape \in UnitTapes : inst = NewUnit(kind, tape)

notInst == <<clockVars, paramVars, sys, gen, wander>>

\* What the history keeps of the closure as a call finds it.
Found(u, op, index) ==
    [u EXCEPT !.op = op, !.index = index,
              !.wasNew = (u.newPattern = TRUE), !.wasEmpty = (Len(u.pattern) = 0),
              !.before = u.pattern, !.replaced = FALSE, !.sound = "none",
              !.played = {}]

\* The subscriber of currentStep calls d.step(step), part_000:413-415.
UnitStep ==
    /\ \E index \in StepIndices :
        inst' = IF inst.kind = "ThreeOh"
                THEN threeOhUnitStep(Found(inst, "step", index), index)
                ELSE nineOhUnitStep(Found(inst, "step", index), index)
    /\ UNCHANGED notInst

\* Something sets the unit's trigger: newPattern.value = true
\* (part_000:274, 279).
RaisePattern ==
    /\ inst' = [Found(inst, "newPattern", -1) EXCEPT !.newPattern = TRUE]
    /\ UNCHANGED notInst

\* Something sets gen.newNotes.value = true; the ThreeOhUnit's subscriber
\* sets newPattern (part_000:91-93).
RaiseNotes ==
    /\ inst.kind = "ThreeOh"
    /\ inst' = [Found(inst, "newNotes", -1) EXCEPT !.g.newNotes = TRUE, !.newPattern = TRUE]
    /\ UNCHANGED notInst

\* Something writes one of the mutes (part_000:297-300).
WriteMute ==
    /\ inst.kind = "NineOh"
    /\ \E i \in 1..4 : \E b \in BOOLEAN :
        inst' = [Found(inst, "mute", -1) EXCEPT !.mutes[i] = b]
    /\ UNCHANGED notInst

NextInst ==
    \/ UnitStep
    \/ RaisePattern
    \/ RaiseNotes
    \/ WriteMute

---------------------------------------------------------------------------
(* The application (src/unnamed/part_000:80-426)                           *)
(*                                                                         *)
(* sys.P maps the name of every parameter start() creates to its value and *)
(* its listeners (names of the callbacks subscribed, in order).  A         *)
(* parameter write runs its listeners to completion inside the step that   *)
(* makes it, as in interface.js:16-26.  Callbacks of audio nodes and of    *)
(* the page only observe and are left out.                                 *)
(*                                                                         *)
(* The note set and the patterns are held by identity: noteSet is the      *)
(* number of times changeNotes has run, a melodic pattern is << >> (the    *)
(* empty array) or <<v>> for a pattern made from note set v, the drum      *)
(* pattern << >> or <<"drums">>; their contents are those of the           *)
(* generators above.                                                       *)
(*                                                                         *)
(* sys.tape and sys.k are the Math.random() values of the running handler  *)
(* (in hundredths), sys.calls the calls of the Clock's API that callbacks  *)
(* have made in it.  sys.phase is "clockUnit" while ClockUnit() runs,      *)
(* "loading" while start() awaits the samples of NineOhUnit, "wired" once  *)
(* start() has returned.  sys.loadBy is the time by which the samples are  *)
(* loaded.  History: steps counts the writes of currentStep by the Clock's *)
(* callback; instCalls and instLast the calls of the instruments' step     *)
(* and the index of the last; ticksAtWire the Clock's ticks when start()   *)
(* subscribed them; seen4 and seen15 the deliveries of 4 and of 15 to      *)
(* AutoPilot's callback; muteWrites the writes of mute parameters by       *)
(* AutoPilot; apCalls the calls of AutoPilot's callback of currentStep and *)
(* order which of the two subscribers of currentStep had been called more  *)
(* often when it was last called; heard the mute values the drums' last    *)
(* step read and renewed the triggers the instruments' last step consumed; *)
(* under the parameters whose publish() is in progress, innermost last,    *)
(* depth the most there ever were, strayed that a parameter was written    *)
(* under the notification of one whose subscribers Writes does not give    *)
(* it to, reentered that a parameter was written while its own publish()   *)
(* was in progress.                                                        *)

Switches == {"patternEnabled", "dialsEnabled", "mutesEnabled"}
Mutes == <<"mute0", "mute1", "mute2", "mute3">>
NewPatternOf == <<"newPattern1", "newPattern2">>
PatternOf == <<"pattern1", "pattern2">>

\* The values Math.random() takes in AutoPilot, and how many make a tape.
AutoRnd == {10, 60}
AutoTapeLen == 2
AutoTapes == [1..AutoTapeLen -> AutoRnd]

\* How many draws make a tape where AutoPilot's rolls are followed: the
\* four of one roll of the mutes or of the patterns.
RollTapeLen == 4
RollTapes == [1..RollTapeLen -> AutoRnd]

\* The tempi written to the bpm parameter.
UnitBpms == {142, 200}

NewP(v) == [value |-> v, listeners |-> << >>]

\* The parameters as they are created.
InitialP ==
    [name \in {"bpm", "currentStep", "delayTime", "noteSet", "newNotes",
               "pattern1", "pattern2", "newPattern1", "newPattern2",
               "patternD", "newPatternD", "mute0", "mute1", "mute2", "mute3",
               "nextMeasure", "currentMeasure"} \cup Switches |->
        CASE name = "bpm" -> NewP(142)                      \* part_000:335
          [] name = "currentStep" -> NewP(0)                \* part_000:338
          [] name = "delayTime" -> NewP(<<3, 10>>)          \* part_000:216, 0.3 s
          [] name = "noteSet" -> NewP(0)                    \* pattern.js:27
          [] name = "newNotes" -> NewP(TRUE)                \* pattern.js:28
          [] name \in {"pattern1", "pattern2"} -> NewP(<< >>)           \* part_000:85
          [] name \in {"newPattern1", "newPattern2"} -> NewP(TRUE)      \* part_000:88
          [] name = "patternD" -> NewP(<< >>)               \* part_000:156
          [] name = "newPatternD" -> NewP(TRUE)             \* part_000:167
          [] name \in {"mute0", "mute1", "mute2", "mute3"} -> NewP(FALSE)  \* part_000:159-164
          [] name \in {"nextMeasure", "currentMeasure"} -> NewP(0)      \* part_000:243-244
          [] name \in Switches -> NewP(TRUE)]               \* part_000:247-249

Value(w, name) == w.P[name].value

\* A handler begins: it is given its draws, and the history of what
\* AutoPilot does in it starts empty.
Begin(w, tape) ==
    [w EXCEPT !.tape = tape, !.k = 0,
              !.raised = {}, !.rolledAt = -1, !.nextWas = w.P["nextMeasure"].value,
              !.muted = << >>, !.mutedAt = -1, !.currentWas = w.P["currentMeasure"].value,
              !.built = FALSE,
              !.nextCalls = 0, !.measuredAt = -1, !.currentCalls = 0]
End(w) == [w EXCEPT !.tape = << >>, !.k = 0, !.calls = << >>]

RECURSIVE sysSet(_, _, _)
RECURSIVE sysPublish(_, _, _)
RECURSIVE sysCall(_, _, _)

\* A call evaluates its arguments before its body runs: x \in {e} takes
\* the value of e once and the body then reads x.

\* bpm.subscribe(clockImpl.setBpm), part_000:344
clockSetBpm(w, b) == [w EXCEPT !.calls = Append(@, Call("setBpm", b, "noop"))]

\* b => delay.delayTime.value = (3/4) * (60/b), part_000:384.  A delay
\* time is a pair <<p, q>> that stands for p / q seconds: this one is
\* 45 / b.
syncDelay(w, b) == sysSet(w, "delayTime", <<45, b>>)

\* A variant of onNewNotes in which only the first voice follows the trigger.
onNewNotesFirstOnly(w, i, newNotes) ==
    IF newNotes = TRUE /\ i = 1 THEN sysSet(w, NewPatternOf[i], TRUE) ELSE w

\* A variant of onNewNotes that fires the trigger it is called by again.
onNewNotesFiresAgain(w, i, newNotes) ==
    IF newNotes = TRUE
    THEN sysSet(sysSet(w, NewPatternOf[i], TRUE), "newNotes", TRUE)
    ELSE w

\* newNotes => { if (newNotes === true) newPattern.value = true }, part_000:91-93
onNewNotes(w, i, newNotes) ==
    IF newNotes = TRUE THEN sysSet(w, NewPatternOf[i], TRUE) ELSE w

\* A variant of genCreatePattern that leaves the trigger newNotes as it is.
genCreatePatternKeepsTrigger(w) ==
    CHOOSE r \in
        { IF Value(x, "newNotes") = TRUE
          THEN sysSet(x, "noteSet", Value(x, "noteSet") + 1)
          ELSE x : x \in {w} } : TRUE

\* gen.createPattern(), pattern.js:45-78, by identity of the note set
genCreatePattern(w) ==
    CHOOSE r \in
        { IF Value(x, "newNotes") = TRUE
          THEN sysSet(sysSet(x, "noteSet", Value(x, "noteSet") + 1), "newNotes", FALSE)
          ELSE x : x \in {w} } : TRUE

\* pattern.value = gen.createPattern(); newPattern.value = false,
\* part_000:103-104, of voice i
renewPattern(w, i) ==
    CHOOSE r \in
        { sysSet(sysSet(x, PatternOf[i], <<Value(x, "noteSet")>>), NewPatternOf[i], FALSE)
          : x \in {genCreatePattern([w EXCEPT !.renewed = @ \cup {NewPatternOf[i]}])} } : TRUE

\* ThreeOhUnit.step(index), part_000:99-116, of voice i
threeOhStep(w, i, index) ==
    CHOOSE r \in
        { IF (index = 0 /\ Value(x, NewPatternOf[i]) = TRUE)
                \/ Len(Value(x, PatternOf[i])) = 0
          THEN renewPattern(x, i)
          ELSE x : x \in {w} } : TRUE

\* The values of the four mutes, as the loop of part_000:184-191 reads them.
MuteValues(w) == [i \in 1..4 |-> Value(w, Mutes[i])]

\* NineOhUnit.step(index), part_000:176-192; the history keeps the mute
\* values the hits of this step were decided with.
nineOhStep(w, index) ==
    CHOOSE r \in
        { [y EXCEPT !.heard = MuteValues(y)]
          : y \in { IF (index = 0 /\ Value(x, "newPatternD") = TRUE)
                        \/ Len(Value(x, "patternD")) = 0
                    THEN sysSet(sysSet([x EXCEPT !.renewed = @ \cup {"newPatternD"}],
                                       "patternD", <<"drums">>), "newPatternD", FALSE)
                    ELSE x : x \in {w} } } : TRUE

\* step => [...notes, drums].forEach(d => d.step(step)), part_000:413-415
stepInstruments(w, index) ==
    LET w1 == threeOhStep([w EXCEPT !.renewed = {}], 1, index)
        w2 == threeOhStep(w1, 2, index)
        w3 == nineOhStep(w2, index)
    IN  [w3 EXCEPT !.instCalls = @ + 1, !.instLast = index]

\* What the history records of a delivery to AutoPilot's subscriber.
Seen(w, index) ==
    [w EXCEPT !.seen4 = IF index = 4 THEN @ + 1 ELSE @,
              !.seen15 = IF index = 15 THEN @ + 1 ELSE @,
              !.apCalls = @ + 1,
              !.order = IF w.instCalls = w.apCalls + 1 THEN "instruments" ELSE "autopilot"]

\* A variant of onStep that counts measures on steps 0 and 15.
onStepDownbeat(w, index) ==
    CHOOSE r \in
        { IF index = 0
          THEN sysSet(h, "nextMeasure", Value(h, "nextMeasure") + 1)
          ELSE IF index = 15
               THEN sysSet(h, "currentMeasure", Value(h, "currentMeasure") + 1)
               ELSE h : h \in {Seen(w, index)} } : TRUE

\* A variant of onStep that counts upcomingMeasure on steps 4 and 12.
onStepTwicePerBar(w, index) ==
    CHOOSE r \in
        { IF index % 8 = 4
          THEN sysSet(h, "nextMeasure", Value(h, "nextMeasure") + 1)
          ELSE IF index = 15
               THEN sysSet(h, "currentMeasure", Value(h, "currentMeasure") + 1)
               ELSE h : h \in {Seen(w, index)} } : TRUE

\* AutoPilot's subscriber of currentStep, part_000:252-258
onStep(w, index) ==
    CHOOSE r \in
        { IF index = 4
          THEN sysSet(h, "nextMeasure", Value(h, "nextMeasure") + 1)
          ELSE IF index = 15
               THEN sysSet(h, "currentMeasure", Value(h, "currentMeasure") + 1)
               ELSE h : h \in {Seen(w, index)} } : TRUE

\* What the history records of a write AutoPilot makes to a trigger.
Raised(w, trigger, v) ==
    [w EXCEPT !.raised = @ \cup {[trigger |-> trigger, value |-> v]}]

\* if (Math.random() < p) trigger.value = true, p in percent
roll(w, p, trigger) ==
    CHOOSE r \in
        { IF Random(x) < p
          THEN sysSet(Raised(Drawn(x, 1), trigger, TRUE), trigger, TRUE)
          ELSE Drawn(x, 1)
          : x \in {w} } : TRUE

\* state.notes.forEach(...) and the drum roll, part_000:272-281
rollPatterns(w) ==
    roll(roll(roll(w, 50, "newPattern1"), 50, "newPattern2"), 30, "newPatternD")

\* A variant of onNextMeasure that rolls the patterns every 8 measures.
onNextMeasureEveryEight(w, measure) ==
    CHOOSE r \in
        { IF Value(x, "patternEnabled")
          THEN LET w1 == IF measure % 64 = 0 THEN roll(x, 20, "newNotes") ELSE x
               IN  IF measure % 8 = 0 THEN rollPatterns(w1) ELSE w1
          ELSE x : x \in {[w EXCEPT !.rolledAt = measure, !.nextCalls = @ + 1]} } : TRUE

\* A variant of onNextMeasure that does not read the switch.
onNextMeasureUnswitched(w, measure) ==
    CHOOSE r \in
        { LET w1 == IF measure % 64 = 0 THEN roll(x, 20, "newNotes") ELSE x
          IN  IF measure % 16 = 0 THEN rollPatterns(w1) ELSE w1
          : x \in {[w EXCEPT !.rolledAt = measure, !.nextCalls = @ + 1]} } : TRUE

\* AutoPilot's subscriber of nextMeasure, part_000:261-283
onNextMeasure(w, measure) ==
    CHOOSE r \in
        { IF Value(x, "patternEnabled")
          THEN LET w1 == IF measure % 64 = 0 THEN roll(x, 20, "newNotes") ELSE x
               IN  IF measure % 16 = 0 THEN rollPatterns(w1) ELSE w1
          ELSE x : x \in {[w EXCEPT !.rolledAt = measure, !.nextCalls = @ + 1]} } : TRUE

\* The four draws of part_000:290-295
drawMutes(w) ==
    << Random(w) < 20,
       Random(Drawn(w, 1)) < 50,
       Random(Drawn(w, 2)) < 50,
       Random(Drawn(w, 3)) < 50 >>

\* The four writes of part_000:297-300
writeMutes(w, drumMutes) ==
    LET w0 == sysSet(w, "mute0", drumMutes[1])
        w1 == sysSet(w0, "mute1", drumMutes[2])
        w2 == sysSet(w1, "mute2", drumMutes[3])
        w3 == sysSet(w2, "mute3", drumMutes[4])
    IN  [w3 EXCEPT !.muteWrites = @ + 4]

\* What the history records of a call of AutoPilot's subscriber of
\* currentMeasure that writes the mutes.
Muted(w, measure) == [w EXCEPT !.muted = @ \o Mutes, !.mutedAt = measure]

\* A variant of onCurrentMeasure that does not read the switch.
onCurrentMeasureUnswitched(w, measure) ==
    CHOOSE r \in
        { IF measure % 8 = 0
          THEN writeMutes(Muted(Drawn(x, 4), measure), drawMutes(x))
          ELSE x : x \in {[w EXCEPT !.measuredAt = measure, !.currentCalls = @ + 1]} } : TRUE

\* A variant of onCurrentMeasure that rolls the mutes every 4 measures.
onCurrentMeasureEveryFour(w, measure) ==
    CHOOSE r \in
        { IF Value(x, "mutesEnabled")
          THEN IF measure % 4 = 0
               THEN writeMutes(Muted(Drawn(x, 4), measure), drawMutes(x))
               ELSE x
          ELSE x : x \in {[w EXCEPT !.measuredAt = measure, !.currentCalls = @ + 1]} } : TRUE

\* AutoPilot's subscriber of currentMeasure, part_000:286-303
onCurrentMeasure(w, measure) ==
    CHOOSE r \in
        { IF Value(x, "mutesEnabled")
          THEN IF measure % 8 = 0
               THEN writeMutes(Muted(Drawn(x, 4), measure), drawMutes(x))
               ELSE x
          ELSE x : x \in {[w EXCEPT !.measuredAt = measure, !.currentCalls = @ + 1]} } : TRUE

\* A callback is called with the parameter's value.
sysCall(w, cb, v) ==
    CASE cb = "clockImpl.setBpm" -> clockSetBpm(w, v)
      [] cb = "syncDelay" -> syncDelay(w, v)
      [] cb = "onNewNotes1" -> onNewNotes(w, 1, v)
      [] cb = "onNewNotes2" -> onNewNotes(w, 2, v)
      [] cb = "stepInstruments" -> stepInstruments(w, v)
      [] cb = "onStep" -> onStep(w, v)
      [] cb = "onNextMeasure" -> onNextMeasure(w, v)
      [] cb = "onCurrentMeasure" -> onCurrentMeasure(w, v)

\* A variant of sysPublish that calls only the listener subscribed last.
sysPublishLastOnly(w, name, i) ==
    CHOOSE r \in
        { IF Len(x.P[name].listeners) = 0
          THEN x
          ELSE sysCall(x, x.P[name].listeners[Len(x.P[name].listeners)], x.P[name].value)
          : x \in {w} } : TRUE

\* publish(), interface.js:16-20, of the parameter called name
sysPublish(w, name, i) ==
    CHOOSE r \in
        { IF i > Len(x.P[name].listeners)
          THEN x
          ELSE sysPublish(sysCall(x, x.P[name].listeners[i], x.P[name].value), name, i + 1)
          : x \in {w} } : TRUE

\* The parameters a callback assigns: Clock.setBpm (boilerplate.js:135-141)
\* none, the others as part_000:384, 91-93, 99-116 and 176-192 with
\* pattern.js:45-49, 252-258, 261-283 and 286-303 have it.
Writes(cb) ==
    CASE cb = "clockImpl.setBpm" -> {}
      [] cb = "syncDelay" -> {"delayTime"}
      [] cb = "onNewNotes1" -> {"newPattern1"}
      [] cb = "onNewNotes2" -> {"newPattern2"}
      [] cb = "stepInstruments" -> {"pattern1", "newPattern1", "pattern2", "newPattern2",
                                    "patternD", "newPatternD", "noteSet", "newNotes"}
      [] cb = "onStep" -> {"nextMeasure", "currentMeasure"}
      [] cb = "onNextMeasure" -> {"newNotes", "newPattern1", "newPattern2", "newPatternD"}
      [] cb = "onCurrentMeasure" -> {"mute0", "mute1", "mute2", "mute3"}

\* The parameters the subscribers of a parameter assign.
WrittenUnder(w, name) ==
    UNION { Writes(w.P[name].listeners[k]) : k \in 1..Len(w.P[name].listeners) }

\* publish() of the parameter called name begins: it joins the dispatches
\* in progress, and the history records a write from under the
\* notification of a parameter none of whose subscribers has it in Writes.
Enter(w, name) ==
    [w EXCEPT !.under = Append(@, name),
              !.depth = IF Len(w.under) + 1 > @ THEN Len(w.under) + 1 ELSE @,
              !.strayed = @ \/ (w.under # << >>
                                /\ name \notin WrittenUnder(w, w.under[Len(w.under)]))]

\* publish() returns.
Leave(w) == [w EXCEPT !.under = SubSeq(@, 1, Len(@) - 1)]

\* set value(v), interface.js:26.  A write to a parameter whose publish()
\* is in progress would dispatch to the callback that is making it, and so
\* on without end: it is recorded in reentered and followed no further.
sysSet(w, name, v) ==
    CHOOSE r \in
        { IF \E k \in 1..Len(x.under) : x.under[k] = name
          THEN [x EXCEPT !.reentered = TRUE]
          ELSE Leave(sysPublish(Enter(x, name), name, 1))
          : x \in {[w EXCEPT !.P[name].value = v]} } : TRUE

\* A variant of sysSubscribe that registers the callback without calling it.
sysSubscribeSilently(w, name, cb) ==
    [w EXCEPT !.P[name].listeners = Append(@, cb)]

\* subscribe(callback), interface.js:11-14
sysSubscribe(w, name, cb) ==
    CHOOSE r \in
        { [y EXCEPT !.P[name].listeners = Append(@, cb)]
          : y \in {sysCall(x, cb, x.P[name].value) : x \in {w}} } : TRUE

\* What ClockUnit() does after creating its parameters and the Clock,
\* part_000:344-352.
ClockUnitBody ==
    << Call("subscribe", 0, "noop"), Call("bind", 0, "unit"), Call("start", 0, "noop") >>

\* start() from the return of ClockUnit() to the await, part_000:381-397:
\* the delay follows the tempo and both voices subscribe to gen.newNotes.
startToAwait(w) ==
    LET w1 == sysSubscribe(w, "bpm", "syncDelay")
        w2 == sysSubscribe(w1, "newNotes", "onNewNotes1")
    IN  sysSubscribe(w2, "newNotes", "onNewNotes2")

\* AutoPilot(state), part_000:241-327
AutoPilot(w) ==
    LET w1 == sysSubscribe([w EXCEPT !.built = TRUE], "currentStep", "onStep")
        w2 == sysSubscribe(w1, "nextMeasure", "onNextMeasure")
    IN  sysSubscribe(w2, "currentMeasure", "onCurrentMeasure")

\* A variant of startFromAwait that constructs AutoPilot before the
\* instruments subscribe to currentStep.
startFromAwaitAutoPilotFirst(w) ==
    sysSubscribe(AutoPilot(w), "currentStep", "stepInstruments")

\* start() from the await on, part_000:397-425
startFromAwait(w) ==
    AutoPilot(sysSubscribe(w, "currentStep", "stepInstruments"))

\* The parameters AutoPilot wraps in a WanderingParameter, part_000:305-309:
\* the four of each voice, then the delay's feedback and dryWet.
Wanderers ==
    {"cutoff1", "resonance1", "envMod1", "decay1",
     "cutoff2", "resonance2", "envMod2", "decay2",
     "feedback", "dryWet"}

\* The period of window.setInterval, part_000:316, in ms
WanderInterval == 100

\* A variant of wanderTick that does not read the switch.
wanderTickUnswitched(w) ==
    [w EXCEPT !.wsteps = [x \in Wanderers |-> @[x] + 1]]

\* The callback of the interval, part_000:312-316:
\* if (dialsEnabled.value) wanderers.forEach(w => w.step())
wanderTick(w) ==
    IF Value(w, "dialsEnabled")
    THEN [w EXCEPT !.wsteps = [x \in Wanderers |-> @[x] + 1]]
    ELSE w

NewSys(loadBy, tapes) ==
    [phase |-> "clockUnit", P |-> InitialP, tape |-> << >>, k |-> 0, calls |-> << >>,
     loadBy |-> loadBy, tapes |-> tapes,
     steps |-> 0, instCalls |-> 0, instLast |-> -1, ticksAtWire |-> 0,
     seen4 |-> 0, seen15 |-> 0, muteWrites |-> 0,
     raised |-> {}, rolledAt |-> -1, nextWas |-> 0,
     muted |-> << >>, mutedAt |-> -1, currentWas |-> 0, built |-> FALSE,
     nextCalls |-> 0, measuredAt |-> -1, currentCalls |-> 0, firstStep |-> -1,
     waited |-> 0, lastRaise |-> "none",
     heard |-> << >>, renewed |-> {}, order |-> "none", apCalls |-> 0,
     under |-> << >>, depth |-> 0, strayed |-> FALSE, reentered |-> FALSE,
     wanderDue |-> -1, wiredAt |-> -1, wanderTicks |-> 0,
     wsteps |-> [x \in Wanderers |-> 0]]

notSys == <<paramVars, gen, wander, inst>>

\* What the history records when a handler that may run AutoPilot's rules
\* ends: for how many deliveries to the instruments in a row newNotes has
\* been left true, and that AutoPilot raised it.
Waited(before, w, delivered) ==
    CHOOSE r \in
        { [x EXCEPT !.waited = IF Value(x, "newNotes") = TRUE
                               THEN before.waited + delivered ELSE 0,
                    !.lastRaise = IF [trigger |-> "newNotes", value |-> TRUE] \in x.raised
                                  THEN "autopilot" ELSE @]
          : x \in {w} } : TRUE

\* ClockUnit() has created bpm, currentStep and Clock(bpm.value, 4, 0.0),
\* part_000:335-341, and is about to run the rest of its body.
InitUnit(loadBy, until, tapes) ==
    /\ currentBpm = 142
    /\ subdivision = 4
    /\ shuffle = 0
    /\ n = 0
    /\ fn = "noop"
    /\ timeoutId = NullId
    /\ isRunning = TRUE
    /\ timers = {}
    /\ now = 0
    /\ pc = "ctor"
    /\ script = ClockUnitBody
    /\ lastOp = [name |-> "new", wasRunning |-> FALSE, stale |-> -1, inCb |-> FALSE]
    /\ ticks = 0
    /\ lastCall = [fn |-> "noop", n |-> -1, t |-> -1]
    /\ halted = FALSE
    /\ lastBound = "noop"
    /\ since = "none"
    /\ bpmAtStop = 142
    /\ horizon = until
    /\ sys = NewSys(loadBy, tapes)
    /\ param = NewParameter(0)
    /\ cbPool = {}
    /\ gen = GenAside
    /\ wander = WanderAside
    /\ inst = InstAside

\* One statement of ClockUnit()'s body, part_000:344-352.
ClockUnitRuns ==
    /\ pc = "ctor"
    /\ script # << >>
    /\ IF Head(script).op = "subscribe"
       THEN LET w == sysSubscribe(sys, "bpm", "clockImpl.setBpm")
            IN  /\ IF w.calls # << >>
                   THEN Invoke(Head(w.calls))
                   ELSE UNCHANGED <<currentBpm, n, fn, timeoutId, isRunning,
                                    subdivision, shuffle, timers, now, lastOp,
                                    ticks, lastCall, halted, lastBound, since,
                                    bpmAtStop, horizon>>
                /\ sys' = End(w)
       ELSE /\ Invoke(Head(script))
            /\ UNCHANGED sys
    /\ script' = Tail(script)
    /\ UNCHANGED pc
    /\ UNCHANGED notSys

\* ClockUnit() returns and start() runs on to its await.
StartAwaits ==
    /\ pc = "ctor"
    /\ script = << >>
    /\ pc' = "idle"
    /\ sys' = [End(startToAwait(sys)) EXCEPT !.phase = "loading"]
    /\ UNCHANGED <<currentBpm, n, fn, timeoutId, isRunning, subdivision, shuffle,
                   timers, now, script, lastOp, ticks, lastCall, halted,
                   lastBound, since, bpmAtStop, horizon>>
    /\ UNCHANGED notSys

\* The samples are loaded: start() subscribes the instruments, constructs
\* AutoPilot and returns.
StartResumes ==
    /\ pc = "idle"
    /\ sys.phase = "loading"
    /\ now <= sys.loadBy
    /\ \E tape \in sys.tapes :
        sys' = [Waited(sys, End(startFromAwait(Begin(sys, tape))), 0) EXCEPT
                    !.phase = "wired", !.ticksAtWire = ticks,
                    !.wiredAt = now, !.wanderDue = now + WanderInterval,
                    !.firstStep = Value(sys, "currentStep")]
    /\ UNCHANGED clockVars
    /\ UNCHANGED notSys

\* A variant of unitStep that publishes the Clock's index as it is.
unitStepRaw(index) == index

\* What the callback ClockUnit bound assigns to currentStep, part_000:349
unitStep(index) == index % 16

\* The callback ClockUnit bound, part_000:348-350:
\* currentStep.value = step % 16
UnitCallback ==
    /\ pc = "cb"
    /\ script # << >>
    /\ Head(script).op = "currentStep"
    /\ \E tape \in sys.tapes :
        sys' = [Waited(sys, End(sysSet(Begin(sys, tape), "currentStep",
                                       unitStep(lastCall.n))),
                       IF sys.phase = "wired" THEN 1 ELSE 0)
                    EXCEPT !.steps = @ + 1]
    /\ script' = Tail(script)
    /\ UNCHANGED <<currentBpm, n, fn, timeoutId, isRunning, subdivision, shuffle,
                   timers, now, pc, lastOp, ticks, lastCall, halted,
                   lastBound, since, bpmAtStop, horizon>>
    /\ UNCHANGED notSys

\* The pause button, boilerplate.js:37-51: clock.stop() or clock.start().
Pause ==
    /\ sys.phase = "wired"
    /\ CallStop

Resume ==
    /\ sys.phase = "wired"
    /\ CallStart

\* Something assigns the bpm parameter; its listeners call setBpm and
\* retime the delay.
WriteBpm ==
    /\ sys.phase = "wired"
    /\ pc = "idle"
    /\ \E b \in UnitBpms :
        LET w == sysSet(Begin(sys, << >>), "bpm", b)
        IN  /\ IF w.calls # << >>
               THEN Invoke(Head(w.calls))
               ELSE UNCHANGED <<currentBpm, n, fn, timeoutId, isRunning,
                                subdivision, shuffle, timers, now, lastOp,
                                ticks, lastCall, halted, lastBound, since,
                                bpmAtStop, horizon>>
            /\ sys' = End(w)
    /\ UNCHANGED <<pc, script>>
    /\ UNCHANGED notSys

\* The random button, boilerplate.js:52-56; programState is set once
\* start() has returned, boilerplate.js:25.
handleRandomAction ==
    /\ sys.phase = "wired"
    /\ pc = "idle"
    /\ sys' = [End(sysSet(Begin(sys, << >>), "newNotes", TRUE)) EXCEPT
                    !.lastRaise = "button"]
    /\ UNCHANGED clockVars
    /\ UNCHANGED notSys

\* Something flips one of AutoPilot's switches.
Toggle ==
    /\ sys.phase = "wired"
    /\ pc = "idle"
    /\ \E name \in Switches :
        sys' = End(sysSet(Begin(sys, << >>), name, ~Value(sys, name)))
    /\ UNCHANGED clockVars
    /\ UNCHANGED notSys

---------------------------------------------------------------------------
(* Specifications *)

\* The Clock alone.
Init ==
    /\ InitClock
    /\ horizon = MaxTime
    /\ param = NewParameter(0)
    /\ cbPool = {}
    /\ sys = SysAside
    /\ gen = GenAside
    /\ wander = WanderAside
    /\ inst = InstAside

Next == NextClock

Spec == Init /\ [][Next]_vars

\* A parameter whose subscribers only observe.
ClockAside ==
    /\ InitClock
    /\ currentBpm = 150
    /\ subdivision = 4
    /\ shuffle = 0
    /\ horizon = MaxTime

InitP ==
    /\ ClockAside
    /\ InitParam
    /\ cbPool = Observers
    /\ sys = SysAside
    /\ gen = GenAside
    /\ wander = WanderAside
    /\ inst = InstAside

SpecParam == InitP /\ [][NextParam]_vars

\* A parameter among whose subscribers one writes back into it.
InitPW ==
    /\ ClockAside
    /\ InitParam
    /\ cbPool = Subscribers
    /\ sys = SysAside
    /\ gen = GenAside
    /\ wander = WanderAside
    /\ inst = InstAside

SpecParamWriteBack == InitPW /\ [][NextParam]_vars

\* The generators alone.
InitG ==
    /\ ClockAside
    /\ param = NewParameter(0)
    /\ cbPool = {}
    /\ sys = SysAside
    /\ InitGen
    /\ wander = WanderAside
    /\ inst = InstAside

SpecGen == InitG /\ [][NextGen]_vars

\* A WanderingParameter alone.
InitW ==
    /\ ClockAside
    /\ param = NewParameter(0)
    /\ cbPool = {}
    /\ sys = SysAside
    /\ gen = GenAside
    /\ InitWander
    /\ inst = InstAside

SpecWander == InitW /\ [][NextWander]_vars

\* An instrument unit alone.
InitI ==
    /\ ClockAside
    /\ param = NewParameter(0)
    /\ cbPool = {}
    /\ sys = SysAside
    /\ gen = GenAside
    /\ wander = WanderAside
    /\ InitInst

SpecInst == InitI /\ [][NextInst]_vars

\* How long the samples may take to load, and how long the units are
\* followed, in ms.
MaxLoadTime == 1800
MaxUnitTime == 2000

\* The application with its tempo and transport controls in use.
InitU == InitUnit(MaxLoadTime, MaxUnitTime, AutoTapes)

NextUnit ==
    \/ ClockUnitRuns
    \/ StartAwaits
    \/ StartResumes
    \/ stepCall
    \/ UnitCallback
    \/ stepSchedule
    \/ Pause
    \/ Resume
    \/ WriteBpm

SpecUnit == InitU /\ [][NextUnit]_vars

\* The application over eight measures, with AutoPilot's switches in use.
MaxAutoLoadTime == 600
MaxAutoTime == 13500

InitA == InitUnit(MaxAutoLoadTime, MaxAutoTime, RollTapes)

NextAuto ==
    \/ ClockUnitRuns
    \/ StartAwaits
    \/ StartResumes
    \/ stepCall
    \/ UnitCallback
    \/ stepSchedule
    \/ Toggle

SpecAuto == InitA /\ [][NextAuto]_vars

\* The application over sixty-four measures, with the switch of the
\* pattern changes in use.
MaxPatternLoadTime == 200
MaxPatternTime == 106500
PatternTapeLen == 3
PatternTapes == [1..PatternTapeLen -> AutoRnd]

InitL == InitUnit(MaxPatternLoadTime, MaxPatternTime, PatternTapes)

\* Something flips the switch patternEnabled.
TogglePatterns ==
    /\ sys.phase = "wired"
    /\ pc = "idle"
    /\ sys' = End(sysSet(Begin(sys, << >>), "patternEnabled", ~Value(sys, "patternEnabled")))
    /\ UNCHANGED clockVars
    /\ UNCHANGED notSys

NextPatterns ==
    \/ ClockUnitRuns
    \/ StartAwaits
    \/ StartResumes
    \/ stepCall
    \/ UnitCallback
    \/ stepSchedule
    \/ TogglePatterns

SpecPatterns == InitL /\ [][NextPatterns]_vars

\* The application over three bars, with the random button and the
\* transport controls in use.
MaxRandomLoadTime == 200
MaxRandomTime == 5200

InitR == InitUnit(MaxRandomLoadTime, MaxRandomTime, AutoTapes)

NextRandom ==
    \/ ClockUnitRuns
    \/ StartAwaits
    \/ StartResumes
    \/ stepCall
    \/ UnitCallback
    \/ stepSchedule
    \/ Pause
    \/ Resume
    \/ handleRandomAction

SpecRandom == InitR /\ [][NextRandom]_vars

\* The application with the timer of the knob wandering followed next to
\* the Clock's, the transport controls and the switch dialsEnabled in use.
MaxDialLoadTime == 150
MaxDialTime == 900

InitD == InitUnit(MaxDialLoadTime, MaxDialTime, AutoTapes)

\* The interval of part_000:312-316 comes due and its callback runs.
WanderTick ==
    /\ sys.phase = "wired"
    /\ pc = "idle"
    /\ sys.wanderDue <= horizon
    /\ \A t \in timers : sys.wanderDue <= t.due
    /\ now' = sys.wanderDue
    /\ sys' = [End(wanderTick(Begin(sys, << >>))) EXCEPT
                    !.wanderDue = @ + WanderInterval, !.wanderTicks = @ + 1]
    /\ lastOp' = [name |-> "wander", wasRunning |-> isRunning, stale |-> -1, inCb |-> FALSE]
    /\ UNCHANGED <<currentBpm, n, fn, timeoutId, isRunning, subdivision, shuffle,
                   timers, pc, script, ticks, lastCall, halted, lastBound,
                   since, bpmAtStop, horizon>>
    /\ UNCHANGED notSys

\* The Clock's timer fires when the interval is not due before it.
ClockTick ==
    /\ stepCall
    /\ sys.phase = "wired" => now' <= sys.wanderDue

\* Something flips the switch dialsEnabled.
ToggleDials ==
    /\ sys.phase = "wired"
    /\ pc = "idle"
    /\ sys' = End(sysSet(Begin(sys, << >>), "dialsEnabled", ~Value(sys, "dialsEnabled")))
    /\ UNCHANGED clockVars
    /\ UNCHANGED notSys

NextDials ==
    \/ ClockUnitRuns
    \/ StartAwaits
    \/ StartResumes
    \/ ClockTick
    \/ UnitCallback
    \/ stepSchedule
    \/ WanderTick
    \/ Pause
    \/ Resume
    \/ ToggleDials

SpecDials == InitD /\ [][NextDials]_vars

\* The application left to itself: nothing is called after start().
NextQuiet ==
    \/ ClockUnitRuns
    \/ StartAwaits
    \/ StartResumes
    \/ stepCall
    \/ UnitCallback
    \/ stepSchedule

\* A timer that is due fires and a handler that has begun runs on to its
\* end; the loading of the samples may take any time.
Runs ==
    \/ ClockUnitRuns
    \/ StartAwaits
    \/ stepCall
    \/ UnitCallback
    \/ stepSchedule

SpecQuiet == InitU /\ [][NextQuiet]_vars /\ WF_vars(Runs)

---------------------------------------------------------------------------
(* Properties of the Clock, checked under Spec *)

\* What the specification gives for the intervals, computed from its words:
\* base = (60000 / bpm) / subdivisions, and (1 + s) * base or (1 - s) * base.
SpecBase(bpm) == (60000 \div bpm) \div subdivision
SpecLong(bpm) == ((100 + shuffle) * SpecBase(bpm)) \div 100
SpecShort(bpm) == ((100 - shuffle) * SpecBase(bpm)) \div 100

\* C1: once stop() has been called, and until start() is called, no callback
\* is invoked, whatever else is called and also when stop() was called from
\* inside the tick callback.
C1_NoTickAfterStop == [][halted => ticks' = ticks]_vars

\* C1 witness: a callback stopped the clock from inside its own tick, and
\* time has passed since with the clock still stopped.
C1_Witness ==
    /\ halted
    /\ pc = "idle"
    /\ lastCall.fn = "stopper"
    /\ now >= lastCall.t + 100

\* C2: in every state, between handlers and inside the tick callback, at
\* most one timer is pending.
C2_AtMostOnePending == Cardinality(timers) <= 1

\* C2 witness: the callback called setBpm, which scheduled a tick, and the
\* rest of step() then replaced that tick by its own.
C2_Witness ==
    /\ lastOp.name = "sched"
    /\ lastOp.stale # -1
    /\ lastCall.fn = "retempo"
    /\ Cardinality(timers) = 1

\* C3: the k-th invocation of the callback delivers index k - 1, and the
\* counter stands at the number of ticks delivered (one less while the
\* k-th callback is still running), whatever was called in between.
C3_IndexCountsTicks ==
    /\ ticks > 0 => lastCall.n = ticks - 1
    /\ pc = "idle" => n = ticks
    /\ pc = "cb" => n = ticks - 1

\* C3 witness: a tick has been delivered after the clock was stopped and
\* started again, following earlier ticks.
C3_Witness ==
    /\ lastOp.name = "call"
    /\ since = "start"
    /\ ticks >= 2

\* C4: setBpm(b) on a running clock leaves exactly one pending tick, due
\* (60000 / b) / subdivisions after the call; it invokes no callback and
\* leaves the step index alone.
C4_SetBpmReschedules ==
    [][(lastOp'.name = "setBpm" /\ isRunning)
        => /\ timers' = {[id |-> timeoutId', due |-> now + SpecBase(currentBpm')]}
           /\ now' = now
           /\ ticks' = ticks
           /\ lastCall' = lastCall
           /\ n' = n]_vars

\* C4 witness: setBpm was called on a running clock whose pending tick was
\* due at another time than the one it is now due at.
C4_Witness ==
    /\ lastOp.name = "setBpm"
    /\ lastOp.wasRunning
    /\ ~lastOp.inCb
    /\ lastOp.stale # -1
    /\ lastOp.stale # now + SpecBase(currentBpm)
    /\ timers = {[id |-> timeoutId, due |-> now + SpecBase(currentBpm)]}

\* C7: with no stop, start or setBpm between two ticks, the time from the
\* tick delivering step k to the next one is (1 + s) * base for even k and
\* (1 - s) * base for odd k (base itself when s = 0).
C7_ShuffledIntervals ==
    [][(ticks' = ticks + 1 /\ ticks > 0 /\ since = "none")
        => now' - lastCall.t =
             IF lastCall.n % 2 = 0 THEN SpecLong(currentBpm) ELSE SpecShort(currentBpm)]_vars

\* C7 witness: with a shuffle, the tick delivering step 2 has fired, a short
\* interval after step 1, which fired a long interval after step 0.
C7_Witness ==
    /\ lastOp.name = "call"
    /\ since = "none"
    /\ shuffle > 0
    /\ lastCall.n = 2
    /\ lastCall.t = 100 + SpecLong(150) + SpecShort(150)
    /\ currentBpm = 150 /\ subdivision = 4

\* C8 as stated: after delivering step n the interval is chosen by the
\* parity of the incremented counter, n + 1.
C8_Original ==
    [][(lastOp'.name = "sched" /\ isRunning)
        => timers' = {[id |-> timeoutId',
                       due |-> now + (IF n' % 2 = 0 THEN SpecLong(currentBpm)
                                                    ELSE SpecShort(currentBpm))]}]_vars

\* C8 as amended: the callback is invoked with the index before the
\* increment; after it returns the counter is incremented once, and the
\* interval then scheduled is chosen by the parity of the index just
\* delivered (the counter before the increment).
C8_StepOrder ==
    [][/\ (lastOp'.name = "call") => (lastCall'.n = n /\ n' = n)
       /\ (lastOp'.name = "sched")
            => /\ n' = n + 1
               /\ lastCall.n = n
               /\ isRunning =>
                    timers' = {[id |-> timeoutId',
                                due |-> now + (IF n % 2 = 0 THEN SpecLong(currentBpm)
                                                            ELSE SpecShort(currentBpm))]}]_vars

\* C8 witness: with a shuffle, step() has delivered an index and scheduled
\* the next tick.
C8_Witness ==
    /\ lastOp.name = "sched"
    /\ shuffle > 0
    /\ isRunning
    /\ n >= 2
    /\ \E t \in timers : t.due = now + (IF n % 2 = 1 THEN SpecLong(currentBpm)
                                                    ELSE SpecShort(currentBpm))

\* C9: start() on a stopped clock sets it running and leaves exactly one
\* pending tick, due (60000 / currentBpm) / subdivisions after the call with
\* no shuffle applied; it invokes no callback.
C9_StartSchedulesBase ==
    [][(lastOp'.name = "start" /\ ~isRunning)
        => /\ isRunning'
           /\ timers' = {[id |-> timeoutId', due |-> now + SpecBase(currentBpm)]}
           /\ currentBpm' = currentBpm
           /\ now' = now
           /\ ticks' = ticks
           /\ n' = n]_vars

\* C9 witness: a stopped clock whose tempo was changed while it was stopped
\* has been started, at an odd step index of a shuffled clock.
C9_Witness ==
    /\ lastOp.name = "start"
    /\ ~lastOp.wasRunning
    /\ ~lastOp.inCb
    /\ currentBpm # bpmAtStop
    /\ shuffle > 0
    /\ n % 2 = 1
    /\ timers = {[id |-> timeoutId, due |-> now + SpecBase(currentBpm)]}

\* C10: bind changes nothing but the callback: no invocation, the running
\* flag, the pending timer and the step index as they were; and every tick
\* invokes the callback most recently bound.
C10_BindOnlyFuture ==
    [][/\ (lastOp'.name = "bind")
            => /\ UNCHANGED <<isRunning, timers, timeoutId, n, currentBpm, now>>
               /\ UNCHANGED <<ticks, lastCall>>
       /\ (ticks' = ticks + 1) => lastCall'.fn = lastBound]_vars

\* C10 witness: bind was called from inside a tick's callback, on a running
\* clock: that tick invoked the old callback and the new one is in place.
C10_Witness ==
    /\ lastOp.name = "bind"
    /\ lastOp.inCb
    /\ lastOp.wasRunning
    /\ lastCall.fn = "rebinder"
    /\ fn = "rec"
    /\ ticks >= 2

---------------------------------------------------------------------------
(* Properties of genericParameter *)

\* The positions in a delivery log of the calls subscribe made itself.
Replays(d) == {k \in 1..Len(d) : d[k].via = 0}

\* The position of the i-th of them.
ReplayOf(d, i) ==
    CHOOSE k \in Replays(d) : Cardinality({j \in Replays(d) : j < k}) = i - 1

\* C5: subscribe(cb) calls cb exactly once, with the current value, before
\* cb is in the listeners (so nothing published during that call reaches
\* the new subscription), and every delivery publish makes to a
\* subscription comes after that subscription's replay.
\* Checked under SpecParamWriteBack, where a subscriber may write during
\* its replay, which makes the order of call and registration observable.
C5_ReplayOnSubscribe ==
    /\ [](LET d == param.delivered
              L == param.listeners
          IN  /\ Cardinality(Replays(d)) = Len(L)
              /\ \A i \in 1..Len(L) :
                    /\ d[ReplayOf(d, i)].cb = L[i]
                    /\ \A k \in 1..Len(d) : d[k].via = i => k > ReplayOf(d, i))
    /\ [][Len(param'.listeners) > Len(param.listeners)
            => LET d == param.delivered
                   e == param'.delivered
                   L == param'.listeners
               IN  /\ Len(L) = Len(param.listeners) + 1
                   /\ SubSeq(L, 1, Len(L) - 1) = param.listeners
                   /\ SubSeq(e, 1, Len(d)) = d
                   /\ Len(e) > Len(d)
                   /\ e[Len(d) + 1] = [cb |-> L[Len(L)], value |-> getValue(param), via |-> 0]
                   /\ \A k \in (Len(d) + 2)..Len(e) : e[k].via \notin {0, Len(L)}]_vars

\* C5 witness: "once" was subscribed after another subscriber while the
\* value was 0; its replay wrote 1, which was published to the earlier
\* subscriber only; later writes were delivered to "once" by publish.
C5_Witness ==
    LET d == param.delivered
    IN  \E k \in 1..Len(d) :
            /\ d[k] = [cb |-> "once", value |-> 0, via |-> 0]
            /\ k + 1 <= Len(d)
            /\ d[k + 1].via = 1 /\ d[k + 1].value = 1
            /\ k + 2 <= Len(d) => d[k + 2].via # 2 \/ d[k + 2].value # 1
            /\ \E j \in (k + 2)..Len(d) : d[j].cb = "once" /\ d[j].via = 2

\* C6: with M subscribers that only observe, N writes since the last
\* subscribe have made exactly N * M deliveries; each write calls every
\* listener once, in subscription order, with the value written, also when
\* it equals the value before; and value reads back the last value written.
C6_WritesNotifyAll ==
    /\ [](/\ Len(param.delivered) - param.mark = param.sinceSub * Len(param.listeners)
          /\ getValue(param) = param.lastWritten)
    /\ [][param'.sinceSub = param.sinceSub + 1
            => LET L == param.listeners
                   v == param'.lastWritten
               IN  /\ param'.listeners = L
                   /\ param'.delivered = param.delivered \o
                        [i \in 1..Len(L) |-> [cb |-> L[i], value |-> v, via |-> i]]]_vars

\* C6 witness: two subscribers, and the same value written twice in a row
\* after they subscribed, each write delivered to both.
C6_Witness ==
    LET d == param.delivered
        M == Len(param.listeners)
    IN  /\ M = 2
        /\ param.sinceSub >= 2
        /\ Len(d) - param.mark = param.sinceSub * M
        /\ d[Len(d)].value = d[Len(d) - M].value
        /\ d[Len(d)].via = 2 /\ d[Len(d) - 1].via = 1


---------------------------------------------------------------------------
(* Properties of the generators, checked under SpecGen *)

Slots == 1..Len(gen.pattern)

\* C14: the array createPattern() returns has exactly 16 slots, and every
\* slot whose note is "-" has accent = false and glide = false.
C14_SixteenSlotsRestsPlain ==
    gen.op = "createPattern" =>
        /\ Len(gen.pattern) = 16
        /\ \A i \in Slots :
            gen.pattern[i].note = "-" =>
                gen.pattern[i].accent = FALSE /\ gen.pattern[i].glide = FALSE

\* C14 witness: a returned pattern holds a rest and an accented note.
C14_Witness ==
    /\ gen.op = "createPattern"
    /\ \E i \in Slots : gen.pattern[i].note = "-"
    /\ \E i \in Slots : gen.pattern[i].note # "-" /\ gen.pattern[i].accent

\* C15: createPattern() runs changeNotes and clears newNotes exactly when
\* newNotes was true as it was called, leaves the note set as it was
\* otherwise, and every note it places is an element of the note set as it
\* is when the call returns.
C15_RegeneratesIffTriggered ==
    gen.op = "createPattern" =>
        /\ gen.regenerated <=> gen.hadNew
        /\ gen.newNotes = FALSE
        /\ ~gen.hadNew => gen.noteSet = gen.before
        /\ \A i \in Slots :
            gen.pattern[i].note # "-" =>
                \E j \in 1..Len(gen.noteSet) : gen.noteSet[j] = gen.pattern[i].note

\* C15 witness: a call found the trigger down, after an earlier call had
\* regenerated the note set, and placed a note.
C15_Witness ==
    /\ gen.op = "createPattern"
    /\ ~gen.hadNew
    /\ gen.noteSet # << <<"C", 1>> >>
    /\ \E i \in Slots : gen.pattern[i].note # "-"

\* The four arrays createPatterns returned, and what triggers in them.
Kick == gen.drums[1]
OpenHat == gen.drums[2]
ClosedHat == gen.drums[3]
Snare == gen.drums[4]
Triggers(array, i) == array[i] # Undefined /\ array[i] # 0

\* C16: what createPatterns(true) returns has a snare with at least one
\* triggering step, and an open or a closed hat with at least one.
C16_FullNeverSilent ==
    gen.op = "createPatterns" /\ gen.full =>
        /\ \E i \in 1..16 : Triggers(Snare, i)
        /\ \E i \in 1..16 : Triggers(OpenHat, i) \/ Triggers(ClosedHat, i)

\* C16 witness: createPatterns(true) chose the last of the three hat styles
\* and the last of the three snare styles.
C16_Witness ==
    /\ gen.op = "createPatterns"
    /\ gen.full
    /\ gen.picks[2] = 2
    /\ gen.picks[3] = 2

\* The statement of C17 as written: every velocity createPatterns assigns
\* is greater than 0 and at most 1.
C17_Original ==
    gen.op = "createPatterns" =>
        \A v \in 1..4 : \A i \in 1..16 :
            gen.drums[v][i] # Undefined =>
                gen.drums[v][i] > 0 /\ gen.drums[v][i] <= 10000

\* C17: every velocity createPatterns assigns is at least 0 and at most 1,
\* and every snare velocity is at least 0.2; a kick or hat velocity is a
\* product of Math.random() and is 0 when the draw is 0.
C17_VelocityInRange ==
    gen.op = "createPatterns" =>
        /\ \A v \in 1..4 : \A i \in 1..16 :
            gen.drums[v][i] # Undefined =>
                gen.drums[v][i] >= 0 /\ gen.drums[v][i] <= 10000
        /\ \A i \in 1..16 : Snare[i] # Undefined => Snare[i] >= 2000

\* C17 witness: a returned kick array holds an assigned velocity of 0 next
\* to the downbeat's velocity of 1, and the snare a drawn velocity.
C17_Witness ==
    /\ gen.op = "createPatterns"
    /\ \E i \in 1..16 : Kick[i] = 0
    /\ Kick[1] = 10000
    /\ \E i \in 1..16 : Snare[i] # Undefined /\ Snare[i] # 10000

---------------------------------------------------------------------------
(* Properties of WanderingParameter, checked under SpecWander *)

\* C18: a step() that finds the parameter's value different from the value
\* last observed leaves the value as it is, sets the momentum to 0 and the
\* cooldown to 200, and records the value as observed; this also when a
\* cooldown was already running.
C18_EditSuppressesStep ==
    [][wander'.op = "step" /\ wander.value # wander.previousValue
        => /\ wander'.value = wander.value
           /\ ~wander'.wrote
           /\ wander'.diff = Whole(0)
           /\ wander'.touchCountdown = 200
           /\ wander'.previousValue = wander.value]_vars

\* C18 witness: a step found an external change while an earlier cooldown
\* was still running down and the value was already moving again.
C18_Witness ==
    /\ wander.op = "step"
    /\ wander.detected
    /\ wander.preCountdown > 0
    /\ wander.preCountdown < 100
    /\ wander.preDiff # Whole(0)
    /\ wander.touchCountdown = 200

---------------------------------------------------------------------------
(* Properties of the application *)

ClockUnitReturned == sys.phase # "clockUnit" \/ (pc = "ctor" /\ script = << >>)

\* C11: when ClockUnit() has returned the clock is running with one tick
\* pending; with nothing else called, the first tick publishes
\* currentStep = 0 and ticks go on occurring, as many as fit the time
\* followed.
C11_RunningOnConstruction ==
    /\ [](ClockUnitReturned /\ pc # "cb" => isRunning /\ Cardinality(timers) = 1)
    /\ [](ticks = 1 => lastCall.n = 0)
    /\ [](sys.steps = 1 => Value(sys, "currentStep") = 0)
    /\ <>(ticks = horizon \div BaseInterval(142))

\* C11 witness: ClockUnit() has just returned, nothing having called
\* start() to any effect, and a tick is pending one interval ahead.
C11_Witness ==
    /\ pc = "ctor"
    /\ script = << >>
    /\ lastOp.name = "start"
    /\ lastOp.wasRunning
    /\ isRunning
    /\ \E t \in timers : t.due = BaseInterval(142)

\* C12: currentStep always holds an integer from 0 to 15, and each value
\* the Clock's callback publishes is the one before it plus 1 modulo 16
\* (the first is 0), whatever is stopped, started or retimed in between.
C12_StepsConsecutive ==
    /\ [](Value(sys, "currentStep") \in 0..15)
    /\ [][sys'.steps # sys.steps
            => /\ sys'.steps = sys.steps + 1
               /\ Value(sys', "currentStep") =
                    IF sys.steps = 0 THEN 0 ELSE (Value(sys, "currentStep") + 1) % 16]_vars

\* C12 witness: the step has wrapped from 15 to 0 on the 17th tick, after
\* the tempo was changed and the clock stopped at the new tempo and
\* started again.
C12_Witness ==
    /\ sys.steps = 17
    /\ Value(sys, "currentStep") = 0
    /\ bpmAtStop = 200
    /\ isRunning
    /\ pc = "cb"

Wired == sys.phase = "wired"

\* The statement of C13 as written: the instruments are stepped exactly
\* once per tick of the Clock and at no other time.
C13_Original ==
    Wired /\ pc = "idle" => sys.instCalls = ticks - sys.ticksAtWire

\* C13: the instruments are stepped once as start() subscribes them, with
\* the value currentStep has then, and after that exactly once per tick
\* of the Clock, with that tick's index modulo 16.
C13_SteppedPerTick ==
    /\ ~Wired => sys.instCalls = 0
    /\ Wired /\ pc = "idle" =>
        /\ sys.instCalls = (ticks - sys.ticksAtWire) + 1
        /\ ticks > sys.ticksAtWire => sys.instLast = lastCall.n % 16
        /\ ticks = sys.ticksAtWire => sys.instLast = Value(sys, "currentStep")

\* C13 witness: the instruments were subscribed after several ticks and
\* have since been stepped by a tick that followed a stop and a start.
C13_Witness ==
    /\ Wired
    /\ pc = "idle"
    /\ sys.ticksAtWire >= 3
    /\ ticks >= sys.ticksAtWire + 2
    /\ sys.instCalls = (ticks - sys.ticksAtWire) + 1
    /\ bpmAtStop = 200

---------------------------------------------------------------------------
(* Properties of AutoPilot, checked under SpecAuto *)

\* C19: in a step that begins with mutesEnabled false, no drum mute
\* parameter is written by AutoPilot and none changes.
C19_NoMuteWritesWhenDisabled ==
    [][Wired /\ ~Value(sys, "mutesEnabled")
        => /\ sys'.muteWrites = sys.muteWrites
           /\ \A i \in 1..4 : Value(sys', Mutes[i]) = Value(sys, Mutes[i])]_vars

\* C19 witness: the tick that made currentMeasure 8 has been delivered
\* with mutesEnabled false, the mutes having been written only when
\* AutoPilot was constructed.
C19_Witness ==
    /\ Wired
    /\ pc = "cb"
    /\ script = << >>
    /\ Value(sys, "currentStep") = 15
    /\ Value(sys, "currentMeasure") = 8
    /\ ~Value(sys, "mutesEnabled")
    /\ sys.muteWrites = 4

\* A delivery to AutoPilot's subscriber of currentStep: a write of
\* currentStep once it is subscribed, or its subscription.
Delivery == (Wired /\ sys'.steps # sys.steps) \/ (~Wired /\ sys'.phase = "wired")

\* C20: upcomingMeasure grows by exactly 1 with each delivery of step 4
\* and currentMeasure by exactly 1 with each delivery of step 15; neither
\* changes in any other step, whatever the switches are.
C20_MeasureCounters ==
    /\ [](Value(sys, "nextMeasure") = sys.seen4 /\ Value(sys, "currentMeasure") = sys.seen15)
    /\ [][/\ Value(sys', "nextMeasure") = Value(sys, "nextMeasure") +
                (IF Delivery /\ Value(sys', "currentStep") = 4 THEN 1 ELSE 0)
          /\ Value(sys', "currentMeasure") = Value(sys, "currentMeasure") +
                (IF Delivery /\ Value(sys', "currentStep") = 15 THEN 1 ELSE 0)]_vars

\* C20 witness: step 4 has just been delivered with all three switches
\* off, and both counters have advanced more than once.
C20_Witness ==
    /\ Wired
    /\ pc = "cb"
    /\ script = << >>
    /\ Value(sys, "currentStep") = 4
    /\ \A name \in Switches : ~Value(sys, name)
    /\ Value(sys, "nextMeasure") >= 3
    /\ Value(sys, "currentMeasure") >= 2


---------------------------------------------------------------------------
(* Properties of the wandering and the generators, continued *)

\* C25: counting the step() calls that follow the one that found an
\* external change, with no other change found since: the first 100 of them
\* write nothing and only run the cooldown down from 200 to 100; the 101st
\* brings the cooldown to 99 and is the first to write the parameter.
C25_HoldThenMove ==
    wander.op = "step" /\ wander.sinceEdit >= 1 =>
        /\ wander.sinceEdit <= 100 =>
                /\ ~wander.wrote
                /\ wander.moves = 0
                /\ wander.touchCountdown = FullCooldown - wander.sinceEdit
        /\ wander.sinceEdit = 101 =>
                /\ wander.wrote
                /\ wander.moves = 1
                /\ wander.touchCountdown = 99

\* C25 witness: the 101st step() after an external change has just written a
\* value other than the one the change left.
C25_Witness ==
    /\ wander.op = "step"
    /\ wander.sinceEdit = 101
    /\ wander.wrote
    /\ wander.touchCountdown = 99
    /\ wander.diff # Whole(0)


\* C26: a step() that writes the parameter writes the old value plus the
\* decayed momentum plus a random part in [-scale/2, scale/2), also when that
\* lies outside [min, max]; only then, and only on the momentum, the impulse
\* acts: above min + 0.8 * (max - min) the momentum left behind is the
\* written displacement less an amount in [0, scale), below
\* min + 0.2 * (max - min) it is the displacement plus such an amount, and
\* in between it is the displacement itself.
C26_ImpulseOnMomentum ==
    wander.op = "step" /\ wander.wrote =>
        LET range == wander.max - wander.min
            decayed == IF wander.touchCountdown > 0
                       THEN Decay(wander.preDiff, 5)
                       ELSE Decay(wander.preDiff, 50)
            displacement == Minus(wander.value, wander.preValue)
            random == Minus(displacement, decayed)
            high == Less(Whole(wander.min + (8 * range) \div 10), wander.value)
            low == Less(wander.value, Whole(wander.min + (2 * range) \div 10))
            taken == Minus(displacement, wander.diff)
            given == Minus(wander.diff, displacement)
        IN  /\ ~Less(random, Whole(- (wander.scale \div 2)))
            /\ Less(random, Whole(wander.scale \div 2))
            /\ high => ~Less(taken, Whole(0)) /\ Less(taken, Whole(wander.scale))
            /\ low => ~Less(given, Whole(0)) /\ Less(given, Whole(wander.scale))
            /\ ~high /\ ~low => wander.diff = displacement

\* C26 witness: a step wrote a value above the parameter's maximum and the
\* impulse then took something off the momentum.
C26_Witness ==
    /\ wander.op = "step"
    /\ wander.wrote
    /\ Less(Whole(wander.max), wander.value)
    /\ Less(wander.preValue, wander.value)
    /\ Less(wander.diff, Minus(wander.value, wander.preValue))


\* The note set that template T gives on root r.
Transposed(T, r) == [j \in 1..Len(T) |-> midiNoteToText(T[j] + r)]

\* C28: a note set that createPattern() has just regenerated is not empty
\* and is, for one root r in 16..30 and one template T of the offset
\* library, the sequence of the pitch names of T[j] + r, as long as T and
\* in its order.
C28_TemplateOnOneRoot ==
    gen.op = "createPattern" /\ gen.regenerated =>
        /\ Len(gen.noteSet) > 0
        /\ \E r \in 16..30 : \E c \in 1..Len(offsetChoices) :
                gen.noteSet = Transposed(offsetChoices[c], r)

\* C28 witness: the note set was regenerated from the last template of the
\* library on the highest root, 30.
C28_Witness ==
    /\ gen.op = "createPattern"
    /\ gen.regenerated
    /\ gen.noteSet = Transposed(offsetChoices[8], 30)
    /\ gen.noteSet # gen.before


---------------------------------------------------------------------------
(* Properties of the Clock, continued; checked under Spec *)

\* C30: whenever the clock is running and its tick callback is not
\* executing, exactly one tick is pending, from construction on and whatever
\* start, stop, setBpm and bind calls were made.
C30_RunningHasOneTimer ==
    isRunning /\ pc # "cb" => Cardinality(timers) = 1


---------------------------------------------------------------------------
(* Properties of AutoPilot's rolls, checked under SpecPatterns and SpecAuto *)

\* The measures between two rolls of a trigger, part_000:264 and 270.
Period(trigger) == IF trigger = "newNotes" THEN 64 ELSE 16

\* The statement of C21 as written: AutoPilot writes newNotes only in a
\* handler in which upcomingMeasure has changed to a multiple of 64 and a
\* newPattern trigger only in one in which it has changed to a multiple of
\* 16, and what it writes is true.
C21_Original ==
    \A e \in sys.raised :
        /\ e.value = TRUE
        /\ Value(sys, "nextMeasure") # sys.nextWas
        /\ Value(sys, "nextMeasure") % Period(e.trigger) = 0

\* C21: AutoPilot writes newNotes only when its subscriber of
\* upcomingMeasure is called with a multiple of 64 and a newPattern trigger
\* only when it is called with a multiple of 16, which is when
\* upcomingMeasure has changed to such a value or when AutoPilot is
\* constructed and the subscription replays the value 0; what it writes is
\* true.
C21_RollsOnMultiples ==
    \A e \in sys.raised :
        /\ e.value = TRUE
        /\ sys.rolledAt = Value(sys, "nextMeasure")
        /\ sys.rolledAt % Period(e.trigger) = 0
        /\ \/ Value(sys, "nextMeasure") # sys.nextWas
           \/ sys.built /\ sys.rolledAt = 0

\* C21 witness: upcomingMeasure has just changed from 63 to 64 and
\* AutoPilot has raised newNotes and the drum unit's newPattern.
C21_Witness ==
    /\ Wired
    /\ Value(sys, "nextMeasure") = 64
    /\ sys.nextWas = 63
    /\ [trigger |-> "newNotes", value |-> TRUE] \in sys.raised
    /\ [trigger |-> "newPatternD", value |-> TRUE] \in sys.raised


\* C27: in a handler that runs with patternEnabled false AutoPilot writes
\* neither newNotes nor any newPattern trigger, whatever value
\* upcomingMeasure takes.
C27_NoRollsWhenDisabled ==
    Wired /\ ~Value(sys, "patternEnabled") => sys.raised = {}

\* C27 witness: with patternEnabled false upcomingMeasure has just changed
\* from 63 to 64, a multiple of 16 and of 64, the subscriber was called
\* with it and nothing was raised.
C27_Witness ==
    /\ Wired
    /\ ~Value(sys, "patternEnabled")
    /\ Value(sys, "nextMeasure") = 64
    /\ sys.nextWas = 63
    /\ sys.rolledAt = 64
    /\ sys.raised = {}


\* currentMeasure has changed in the last handler, to a multiple of 8.
ChangedToEighth ==
    /\ Value(sys, "currentMeasure") # sys.currentWas
    /\ Value(sys, "currentMeasure") % 8 = 0

\* The statement of C22 as written: the mutes are written only in a
\* handler in which currentMeasure has changed to a multiple of 8, and
\* with mutesEnabled true such a handler writes all four.
C22_Original ==
    /\ sys.muted # << >> => ChangedToEighth /\ sys.muted = Mutes
    /\ Wired /\ Value(sys, "mutesEnabled") /\ ChangedToEighth => sys.muted = Mutes

\* C22: AutoPilot writes the mutes only when its subscriber of
\* currentMeasure is called with a multiple of 8, which is when
\* currentMeasure has changed to one or when AutoPilot is constructed and
\* the subscription replays the value 0; each time it writes all four, once
\* each, and with mutesEnabled true every change to a multiple of 8 does.
C22_MutesOnEighths ==
    /\ sys.muted # << >> =>
            /\ sys.muted = Mutes
            /\ sys.mutedAt = Value(sys, "currentMeasure")
            /\ sys.mutedAt % 8 = 0
            /\ ChangedToEighth \/ (sys.built /\ sys.mutedAt = 0)
    /\ Wired /\ Value(sys, "mutesEnabled") /\ ChangedToEighth => sys.muted = Mutes
    /\ sys.built /\ Value(sys, "currentMeasure") = 0 => sys.muted = Mutes

\* C22 witness: currentMeasure has just changed from 7 to 8, the four mutes
\* were written, and the draws muted the kick and the first hat and left
\* the other two voices on.
C22_Witness ==
    /\ Wired
    /\ Value(sys, "currentMeasure") = 8
    /\ sys.currentWas = 7
    /\ sys.muted = Mutes
    /\ Value(sys, "mute0") /\ Value(sys, "mute1")
    /\ ~Value(sys, "mute2") /\ ~Value(sys, "mute3")


---------------------------------------------------------------------------
(* Properties of the instrument units, checked under SpecInst *)

\* What step() looks for: step 0 with the trigger set, or no pattern yet.
Cue == (inst.index = 0 /\ inst.wasNew) \/ inst.wasEmpty

\* C24: a call step(index) of a ThreeOhUnit or of the NineOhUnit replaces
\* the pattern if and only if index = 0 and newPattern is true, or the
\* pattern is empty; it then leaves newPattern false and the pattern the
\* generator has just returned; every other call leaves pattern and
\* newPattern as they were.
C24_ReplacesOnlyOnCue ==
    inst.op = "step" =>
        /\ inst.replaced <=> Cue
        /\ Cue => /\ inst.newPattern = FALSE
                  /\ Len(inst.pattern) > 0
                  /\ inst.pattern = IF inst.kind = "ThreeOh"
                                    THEN inst.g.pattern
                                    ELSE inst.g.drums
        /\ ~Cue => /\ inst.pattern = inst.before
                   /\ inst.newPattern = inst.wasNew

\* C24 witness: a pattern exists, the trigger was raised, and a step in
\* the middle of the bar has left both as they were.
C24_Witness ==
    /\ inst.op = "step"
    /\ inst.index = 5
    /\ inst.wasNew
    /\ ~inst.wasEmpty
    /\ ~inst.replaced
    /\ inst.newPattern = TRUE
    /\ inst.pattern = inst.before


\* The entry of voice i at the step of the last call.
EntryOf(i) == entryAt(inst.pattern, i, inst.index)

\* C29: a step of the drum unit plays voice i, with the entry as its
\* velocity, if and only if the entry of voice i at that step is a
\* velocity other than 0 and mute i is false; a muted voice is not played,
\* nor is one whose entry is absent or 0.
C29_PlayedIffEntryUnmuted ==
    inst.op = "step" /\ inst.kind = "NineOh" =>
        /\ \A i \in 1..4 :
                (\E e \in inst.played : e.voice = i)
                    <=> (EntryOf(i) > 0 /\ ~inst.mutes[i])
        /\ \A e \in inst.played :
                /\ e.voice \in 1..4
                /\ e.velocity = EntryOf(e.voice)

\* C29 witness: in one step a voice was played, a muted voice with a
\* velocity at that step was not, and neither were an unmuted voice whose
\* entry is 0 and an unmuted voice whose entry is absent.
C29_Witness ==
    /\ inst.op = "step"
    /\ inst.kind = "NineOh"
    /\ inst.played # {}
    /\ \E i \in 1..4 : EntryOf(i) > 0 /\ inst.mutes[i]
    /\ \E i \in 1..4 : EntryOf(i) = 0 /\ ~inst.mutes[i]
    /\ \E i \in 1..4 : EntryOf(i) = Undefined /\ ~inst.mutes[i]


---------------------------------------------------------------------------
(* Properties of the knob wandering in the application, checked under
   SpecDials *)

\* C23: the interval fires every 100 ms from AutoPilot's construction on,
\* whether the Clock is running or stopped, and leaves the Clock as it is;
\* a firing that finds dialsEnabled true steps every wanderer exactly once,
\* one that finds it false steps none, and nothing else steps a wanderer.
C23_WanderingOnOwnTimer ==
    /\ [](Wired => sys.wanderDue = sys.wiredAt + WanderInterval * (sys.wanderTicks + 1))
    /\ [][IF Wired /\ sys'.wanderTicks # sys.wanderTicks
           THEN /\ sys'.wanderTicks = sys.wanderTicks + 1
                /\ now' = sys.wanderDue
                /\ <<isRunning, timers, timeoutId, n>>' = <<isRunning, timers, timeoutId, n>>
                /\ IF Value(sys, "dialsEnabled")
                   THEN \A x \in Wanderers : sys'.wsteps[x] = sys.wsteps[x] + 1
                   ELSE sys'.wsteps = sys.wsteps
           ELSE sys'.wsteps = sys.wsteps]_vars
    /\ [](Wired /\ pc = "idle" => now <= sys.wanderDue)

\* C23 witness: the interval has just fired with the Clock stopped and no
\* tick pending, and stepped every wanderer for the third time; an earlier
\* firing had found dialsEnabled false and stepped none.
C23_Witness ==
    /\ Wired
    /\ lastOp.name = "wander"
    /\ ~isRunning
    /\ timers = {}
    /\ Value(sys, "dialsEnabled")
    /\ \A x \in Wanderers : sys.wsteps[x] = 3
    /\ sys.wanderTicks > 3


---------------------------------------------------------------------------
(* Properties of the Clock, continued; checked under Spec *)

\* C38: setBpm(b) on a stopped clock records the tempo and does nothing
\* else: no timer is scheduled, no callback is invoked, the step index
\* stays, and the clock stays stopped; a stopped clock runs again only by
\* start().
C38_SetBpmWhenStopped ==
    /\ [][(lastOp'.name = "setBpm" /\ ~isRunning)
            => /\ currentBpm' \in Bpms
               /\ timers' = timers
               /\ timers' = {}
               /\ timeoutId' = timeoutId
               /\ ticks' = ticks
               /\ lastCall' = lastCall
               /\ n' = n
               /\ ~isRunning']_vars
    /\ [][~isRunning /\ isRunning' => lastOp'.name = "start"]_vars

\* C38 witness: setBpm has just given a stopped clock, which had ticked
\* before, another tempo than it was stopped at; nothing is pending.
C38_Witness ==
    /\ lastOp.name = "setBpm"
    /\ ~lastOp.wasRunning
    /\ ~isRunning
    /\ ticks > 0
    /\ currentBpm # bpmAtStop
    /\ timers = {}


---------------------------------------------------------------------------
(* Properties of the wandering, continued; checked under SpecWander *)

\* The middle of the wrapped parameter's bounds.
Midpoint == Whole((wander.min + wander.max) \div 2)

\* C37: a new wanderer holds the midpoint of the bounds as the value last
\* observed; its very first step(), on a parameter whose value is not the
\* midpoint, writes nothing and sets the cooldown to 200 as for an edit,
\* and on a parameter at the midpoint writes the value at once.
C37_FirstStepFromMidpoint ==
    /\ wander.op = "new" => wander.previousValue = Midpoint
    /\ wander.op = "step" /\ wander.first =>
            IF wander.preValue # Midpoint
            THEN /\ wander.detected
                 /\ ~wander.wrote
                 /\ wander.value = wander.preValue
                 /\ wander.diff = Whole(0)
                 /\ wander.touchCountdown = FullCooldown
            ELSE /\ ~wander.detected
                 /\ wander.wrote
                 /\ wander.moves = 1
                 /\ wander.touchCountdown = 0

\* C37 witness: the first step() on dryWet, which starts at its maximum,
\* has left it there and set the cooldown to 200.
C37_Witness ==
    /\ wander.op = "step"
    /\ wander.first
    /\ wander.name = "dryWet"
    /\ wander.value = Whole(wander.max)
    /\ wander.detected
    /\ wander.touchCountdown = FullCooldown


---------------------------------------------------------------------------
(* Properties of AutoPilot's construction, checked under SpecUnit *)

AllSwitchesOn == \A name \in Switches : Value(sys, name) = TRUE

\* The statement of C35 as written: the handler that constructs AutoPilot
\* calls each of the two rules once, with the initial measure value 0 and
\* with the three switches true, no tick having been delivered to the
\* subscribers of currentStep that start() adds.
C35_Original ==
    sys.built =>
        /\ sys.nextCalls = 1 /\ sys.rolledAt = 0
        /\ sys.currentCalls = 1 /\ sys.measuredAt = 0
        /\ AllSwitchesOn
        /\ sys.instCalls = 1

\* C35: the handler that constructs AutoPilot calls each of the two rules
\* once, with the three switches true and no tick delivered to it, and with
\* the value its counter has then: 0, or 1 when the replay of currentStep
\* just before found step 4 (upcomingMeasure) or step 15 (currentMeasure).
\* Called with 0 the mute rule writes the four mutes and the pattern rule
\* writes the triggers its draws select; called with 1 a rule writes
\* nothing.
C35_RulesRunAtConstruction ==
    sys.built =>
        /\ sys.nextCalls = 1
        /\ sys.rolledAt = Value(sys, "nextMeasure")
        /\ sys.rolledAt = IF Value(sys, "currentStep") = 4 THEN 1 ELSE 0
        /\ sys.currentCalls = 1
        /\ sys.measuredAt = Value(sys, "currentMeasure")
        /\ sys.measuredAt = IF Value(sys, "currentStep") = 15 THEN 1 ELSE 0
        /\ AllSwitchesOn
        /\ sys.instCalls = 1
        /\ sys.muted = IF sys.measuredAt = 0 THEN Mutes ELSE << >>
        /\ sys.rolledAt # 0 => sys.raised = {}

\* C35 witness: AutoPilot has just been constructed before the first tick;
\* it has written the four mutes, muting the kick, and raised newNotes.
C35_Witness ==
    /\ sys.built
    /\ ticks = 0
    /\ sys.rolledAt = 0
    /\ sys.muted = Mutes
    /\ Value(sys, "mute0") = TRUE
    /\ [trigger |-> "newNotes", value |-> TRUE] \in sys.raised


\* upcomingMeasure less currentMeasure.
Lead == Value(sys, "nextMeasure") - Value(sys, "currentMeasure")

\* C33: the two measure counters never differ by more than 1, whatever step
\* is current when AutoPilot subscribes and whatever stop, start and
\* bpm writes are made; when AutoPilot's subscriber is first called with
\* a step in 0..4, upcomingMeasure is currentMeasure or currentMeasure + 1.
C33_CountersWithinOne ==
    /\ Lead \in {-1, 0, 1}
    /\ Wired /\ sys.firstStep \in 0..4 => Lead \in {0, 1}

\* C33 witness: AutoPilot subscribed in the middle of a bar, after a stop
\* and a start currentMeasure was counted first, leaving upcomingMeasure
\* one behind, and step 4 has now brought the two level at 1.
C33_Witness ==
    /\ Wired
    /\ sys.firstStep \in 5..14
    /\ bpmAtStop # currentBpm
    /\ Value(sys, "currentStep") = 4
    /\ Value(sys, "nextMeasure") = 1
    /\ Value(sys, "currentMeasure") = 1


---------------------------------------------------------------------------
(* Properties of the note-set refresh, checked under SpecRandom *)

\* C32: whenever no callback is executing, newNotes = true implies that
\* the trigger newPattern of both melodic voices is true: a refresh of
\* the note set is never pending for one voice only.
C32_RefreshPendingForBoth ==
    (pc # "cb" /\ Value(sys, "newNotes") = TRUE)
        => \A i \in 1..2 : Value(sys, NewPatternOf[i]) = TRUE

\* C32 witness: the random button raised newNotes, ticks other than
\* step 0 have been delivered since, and both voices still have their
\* trigger raised.
C32_Witness ==
    /\ Wired
    /\ pc = "idle"
    /\ sys.lastRaise = "button"
    /\ sys.waited >= 2
    /\ Value(sys, "newNotes") = TRUE
    /\ Value(sys, "newPattern1") = TRUE
    /\ Value(sys, "newPattern2") = TRUE

\* The instruments are delivered step 0 by the Clock.
StepZero == Wired /\ sys'.steps # sys.steps /\ Value(sys', "currentStep") = 0

\* C31: once newNotes is true, by the random button or by AutoPilot, it
\* stays true and the note set stays as it is until the next delivery of
\* step 0, which comes within 16 ticks; that delivery leaves newNotes
\* false, has changed the note set once, and has given both voices a
\* pattern made from the new note set.
C31_RefreshedAtNextStepZero ==
    /\ [][(StepZero /\ Value(sys, "newNotes") = TRUE)
            => /\ Value(sys', "newNotes") = FALSE
               /\ Value(sys', "noteSet") = Value(sys, "noteSet") + 1
               /\ \A i \in 1..2 : Value(sys', PatternOf[i]) = <<Value(sys', "noteSet")>>]_vars
    /\ [][(Wired /\ Value(sys, "newNotes") = TRUE /\ ~StepZero)
            => /\ Value(sys', "newNotes") = TRUE
               /\ Value(sys', "noteSet") = Value(sys, "noteSet")]_vars
    /\ [](sys.waited <= 15)

\* C31 witness: the random button raised newNotes in the third bar, and
\* the delivery of step 0 that followed has left it false, changed the
\* note set and given both voices a pattern from it.
C31_Witness ==
    /\ Wired
    /\ sys.lastRaise = "button"
    /\ Value(sys, "currentStep") = 0
    /\ sys.steps >= 32
    /\ Value(sys, "newNotes") = FALSE
    /\ Value(sys, "noteSet") >= 2
    /\ Value(sys, "pattern1") = <<Value(sys, "noteSet")>>
    /\ Value(sys, "pattern2") = <<Value(sys, "noteSet")>>


---------------------------------------------------------------------------
(* Properties of the order of the subscribers of currentStep, checked      *)
(* under SpecPatterns                                                      *)

\* The Clock's callback delivers a step to the subscribers of currentStep.
Tick == Wired /\ sys'.steps # sys.steps

PatternTriggers == {"newPattern1", "newPattern2", "newPatternD"}

\* C34: in every handler that delivers a step, the instruments process it
\* before AutoPilot reacts.  The drums decide their hits with the mute
\* values of before the tick, so the values AutoPilot rolls on a step-15
\* tick are not heard on that tick and are the ones heard on the step 0
\* that follows.  A trigger that is true, such as one AutoPilot raised on a
\* step-4 tick, stays true and replaces nothing until the next step 0,
\* whose delivery consumes it.
C34_InstrumentsBeforeAutoPilot ==
    /\ [](sys.order # "autopilot")
    /\ [][Tick => /\ sys'.instCalls = sys.instCalls + 1
                  /\ sys'.apCalls = sys.apCalls + 1
                  /\ sys'.order = "instruments"
                  /\ sys'.heard = MuteValues(sys)]_vars
    /\ [][(Tick /\ Value(sys, "currentStep") = 15 /\ sys.mutedAt # -1)
            => Value(sys', "currentStep") = 0 /\ sys'.heard = MuteValues(sys)]_vars
    /\ [][(Tick /\ Value(sys', "currentStep") = 4)
            => \A r \in sys'.raised : Value(sys', r.trigger) = TRUE]_vars
    /\ [][(Tick /\ ~StepZero)
            => /\ sys'.renewed = {}
               /\ \A t \in PatternTriggers : Value(sys, t) = TRUE => Value(sys', t) = TRUE]_vars
    /\ [][StepZero
            => sys'.renewed = {t \in PatternTriggers : Value(sys, t) = TRUE}]_vars

\* C34 witness: the tick of step 15 that ends the eighth measure has been
\* delivered, AutoPilot rolled the mutes in it, and the drums had decided
\* their hits with other values than the ones now set.
C34_Witness ==
    /\ Wired
    /\ Value(sys, "currentStep") = 15
    /\ sys.mutedAt = 8
    /\ sys.order = "instruments"
    /\ sys.heard # << >>
    /\ sys.heard # MuteValues(sys)


---------------------------------------------------------------------------
(* Properties of the dispatch of writes, checked under SpecPatterns *)

RECURSIVE WrittenWithin(_, _)
\* The parameters assigned through chains of up to k + 1 subscribers.
WrittenWithin(S, k) ==
    LET T == S \cup UNION { WrittenUnder(sys, q) : q \in S }
    IN  IF k = 0 \/ T = S THEN S ELSE WrittenWithin(T, k - 1)

\* C36: no parameter is written while its own publish() is in progress,
\* so every write returns; at most four dispatches are ever nested
\* (currentStep, a measure counter, newNotes, newPattern); every write a
\* callback makes under a notification is an edge of the graph of the
\* subscribers registered, and in that graph no parameter is reached
\* from itself.
C36_WritesTerminate ==
    /\ ~sys.reentered
    /\ sys.under = << >>
    /\ sys.depth <= 4
    /\ ~sys.strayed
    /\ \A name \in DOMAIN sys.P :
            name \notin WrittenWithin(WrittenUnder(sys, name), Cardinality(DOMAIN sys.P))

\* C36 witness: the tick of step 4 that begins the 64th upcoming measure
\* has been dispatched four deep, from currentStep through upcomingMeasure
\* and newNotes to newPattern, and has returned.
C36_Witness ==
    /\ Wired
    /\ pc = "cb"
    /\ sys.depth = 4
    /\ sys.under = << >>
    /\ Value(sys, "currentStep") = 4
    /\ sys.rolledAt = 64
    /\ [trigger |-> "newNotes", value |-> TRUE] \in sys.raised
    /\ Value(sys, "newPattern1") = TRUE
    /\ Value(sys, "newPattern2") = TRUE

====
